---- MODULE Spec2Model ----
(***************************************************************************)
(* A model of the SIL performance inliner                                  *)
(* (lib/SILOptimizer/Transforms/PerformanceInliner.cpp): the eligibility   *)
(* filter, the constant tracker, the profitability walk, the call-site     *)
(* collector, the inline driver and the pass entry point.                  *)
(***************************************************************************)
EXTENDS Integers, Sequences, FiniteSets, TLC

\* ------------------------------------------------------------------------
\* Program constants
\* ------------------------------------------------------------------------
RemovedCallBenefit == 80
ConstTerminatorBenefit == 2
ConstCalleeBenefit == 150
LoopBenefitFactor == 40
TrivialFunctionThreshold == 20
BlockLimitDenominator == 10000
CallsToCalleeThreshold == 1024
DepthLimit == 10

\* unsigned and int are 32 bits wide.  An unsigned value is a natural number;
\* the sums of the modelled programs stay below 2^31, and the two operations
\* that can leave that range are computed exactly modulo 2^32 on 16 bit halves.
TwoTo16 == 2^16

\* (a * b) mod 2^32 for 0 <= a, b < 2^31, as <<high half, low half>>
mulU32(a, b) ==
  LET ah == a \div TwoTo16
      al == a % TwoTo16
      bh == b \div TwoTo16
      bl == b % TwoTo16
      t1 == (al \div 256) * bl
      t0 == (al % 256) * bl
      lo == (t1 % 256) * 256 + (t0 % TwoTo16)
      hi == (t1 \div 256) + (t0 \div TwoTo16) + (lo \div TwoTo16)
      cross == ((ah * bl) % TwoTo16) + ((al * bh) % TwoTo16)
  IN <<(hi + cross) % TwoTo16, lo % TwoTo16>>

\* <<hi, lo>> divided by d, 0 < d < 2^15
divU32(p, d) ==
  (p[1] \div d) * TwoTo16 + (((p[1] % d) * TwoTo16 + p[2]) \div d)

\* testThreshold *= 2 on a 32 bit int, wrapping around
doubleS32(x) ==
  IF x >= 2^30 THEN ((x - 2^30) * 2 - 2^30) - 2^30
  ELSE IF x < -(2^30) THEN ((x + 2^30) * 2 + 2^30) + 2^30
  ELSE x * 2


\* ------------------------------------------------------------------------
\* Bounds of the model
\* ------------------------------------------------------------------------
\* the positive -sil-inline-threshold value tried besides 0 and the default
MaxInlineThreshold == 25
\* the non-negative -sil-inline-test-threshold value tried besides the default
MaxTestThreshold == 2
\* how many times the pass pipeline is restarted on one function
MaxRuns == 2
\* the bit width of the integer values (APInt) of the modelled programs
IntBits == 4
\* the size in blocks of the caller named sized
SizedCallerBlocks == 1900

\* ------------------------------------------------------------------------
\* IR: values, instructions, blocks, functions
\* ------------------------------------------------------------------------
NoVal == [f |-> "", k |-> "none", n |-> 0]
\* the result of instruction n of function f
IV(f, n) == [f |-> f, k |-> "inst", n |-> n]
\* function argument number n (from 1) of function f
AV(f, n) == [f |-> f, k |-> "arg", n |-> n]

BaseInst(id, kind) ==
  [id |-> id, kind |-> kind, ops |-> <<>>, fref |-> "", subst |-> FALSE,
   cost |-> 0, val |-> 0, bop |-> "", succ |-> <<>>, cases |-> <<>>,
   dflt |-> 0, take |-> FALSE]

\* an instruction the inliner does not look into, of inline cost c
Opaque(id, c) == [BaseInst(id, "other") EXCEPT !.cost = c]
IntLit(id, v) == [BaseInst(id, "integer_literal") EXCEPT !.val = v]
FuncRef(id, g) == [BaseInst(id, "function_ref") EXCEPT !.fref = g]
Builtin(id, op, args) ==
  [BaseInst(id, "builtin") EXCEPT !.bop = op, !.ops = args, !.cost = 1]
\* ops[1] is the callee operand, the rest are the arguments
Apply(id, callee, args) ==
  [BaseInst(id, "apply") EXCEPT !.ops = <<callee>> \o args, !.cost = 1]
ApplySubst(id, callee, args) == [Apply(id, callee, args) EXCEPT !.subst = TRUE]
TryApply(id, callee, args, normalBB, errorBB) ==
  [BaseInst(id, "try_apply") EXCEPT !.ops = <<callee>> \o args, !.cost = 1,
                                    !.succ = <<normalBB, errorBB>>]
PartialApply(id, callee, args) ==
  [BaseInst(id, "partial_apply") EXCEPT !.ops = <<callee>> \o args, !.cost = 1]
ThinToThick(id, v) == [BaseInst(id, "thin_to_thick_function") EXCEPT !.ops = <<v>>]
AllocStack(id) == BaseInst(id, "alloc_stack")
\* ops[1] is the address loaded from
Load(id, addr) == [BaseInst(id, "load") EXCEPT !.ops = <<addr>>, !.cost = 1]
\* ops[1] is the stored value (operand 0), ops[2] the address (operand 1)
Store(id, v, addr) == [BaseInst(id, "store") EXCEPT !.ops = <<v, addr>>, !.cost = 1]
CopyAddr(id, src, dst, take) ==
  [BaseInst(id, "copy_addr") EXCEPT !.ops = <<src, dst>>, !.take = take, !.cost = 1]
\* projections: val is the field
StructElementAddr(id, addr, fld) ==
  [BaseInst(id, "struct_element_addr") EXCEPT !.ops = <<addr>>, !.val = fld]
StructExtract(id, v, fld) ==
  [BaseInst(id, "struct_extract") EXCEPT !.ops = <<v>>, !.val = fld]
Struct(id, fields) == [BaseInst(id, "struct") EXCEPT !.ops = fields]
\* terminators
Return(id) == BaseInst(id, "return")
Br(id, bb) == [BaseInst(id, "br") EXCEPT !.succ = <<bb>>]
CondBr(id, c, trueBB, falseBB) ==
  [BaseInst(id, "cond_br") EXCEPT !.ops = <<c>>, !.succ = <<trueBB, falseBB>>]
\* cases[i] is the value of case i, succ[i] its destination; dflt is the default
\* destination, 0 when there is none
SwitchValue(id, v, caseVals, dests, dflt) ==
  [BaseInst(id, "switch_value") EXCEPT !.ops = <<v>>, !.cases = caseVals,
                                       !.succ = dests, !.dflt = dflt]

\* a block as written: its instructions, its children in the dominator tree,
\* its loop depth and the children reached over an edge classified slow path
Blk(insts, children, loopDepth, slow) ==
  [insts |-> insts, children |-> children, loopDepth |-> loopDepth, slow |-> slow]

AllInsts(blks) == UNION {{blks[b].insts[i] : i \in 1..Len(blks[b].insts)} : b \in 1..Len(blks)}

\* a function body: the instructions by identity, and per block the sequence
\* of instruction identities
MkBody(blks) ==
  [insts |-> [n \in {x.id : x \in AllInsts(blks)} |->
                CHOOSE x \in AllInsts(blks) : x.id = n],
   blocks |-> [b \in 1..Len(blks) |->
                [ids |-> [i \in 1..Len(blks[b].insts) |-> blks[b].insts[i].id],
                 children |-> blks[b].children,
                 loopDepth |-> blks[b].loopDepth,
                 slow |-> blks[b].slow]]]

EmptyBody == [insts |-> [n \in {} |-> BaseInst(0, "other")], blocks |-> <<>>]

BaseFn(blks) ==
  [body |-> MkBody(blks), strategy |-> "InlineDefault", thunk |-> FALSE,
   semantics |-> {}, effects |-> FALSE, globalInit |-> FALSE,
   external |-> FALSE, optimize |-> TRUE, dynSelf |-> FALSE, fragile |-> FALSE,
   extraBlocks |-> 0]

\* ------------------------------------------------------------------------
\* The modelled programs
\* ------------------------------------------------------------------------
\* callees
leafFn == BaseFn(<<Blk(<<Opaque(1, 5), Return(2)>>, <<>>, 0, {})>>)
midFn == BaseFn(<<Blk(<<Opaque(1, 30), Return(2)>>, <<>>, 0, {})>>)
hugeFn == BaseFn(<<Blk(<<Opaque(1, 200), Return(2)>>, <<>>, 0, {})>>)
twoblkFn ==
  BaseFn(<<Blk(<<Opaque(1, 2), Br(2, 2)>>, <<2>>, 0, {}),
           Blk(<<Opaque(3, 2), Return(4)>>, <<>>, 0, {})>>)
selfrecFn ==
  BaseFn(<<Blk(<<FuncRef(1, "selfrec"), Apply(2, IV("selfrec", 1), <<>>), Return(3)>>,
               <<>>, 0, {})>>)
\* bb1 branches on its argument to bb2 (cheap) or bb3 (expensive); both go to bb4
branchyFn ==
  BaseFn(<<Blk(<<Opaque(1, 1), CondBr(2, AV("branchy", 1), 2, 3)>>, <<2, 3, 4>>, 0, {}),
           Blk(<<Opaque(3, 3), Br(4, 4)>>, <<>>, 0, {}),
           Blk(<<Opaque(5, 40), Br(6, 4)>>, <<>>, 0, {}),
           Blk(<<Opaque(7, 2), Return(8)>>, <<>>, 0, {})>>)
\* bb1 branches on its argument to bb2 or bb3; bb2 falls through to bb3
fallthruFn ==
  BaseFn(<<Blk(<<Opaque(1, 1), CondBr(2, AV("fallthru", 1), 2, 3)>>, <<2, 3>>, 0, {}),
           Blk(<<Opaque(3, 3), Br(4, 3)>>, <<>>, 0, {}),
           Blk(<<Opaque(5, 40), Return(6)>>, <<>>, 0, {})>>)

\* n builtin instructions and an instruction of cost 50; when closure, also an
\* apply of the first argument
builtinsFn(self, n, closure) ==
  BaseFn(<<Blk(<<IntLit(1, 1)>>
               \o [i \in 1..n |-> Builtin(i + 1, "uadd_with_overflow",
                                          <<IV(self, 1), IV(self, 1)>>)]
               \o <<Opaque(90, 50)>>
               \o (IF closure THEN <<Apply(91, AV(self, 1), <<>>)>> ELSE <<>>)
               \o <<Return(99)>>, <<>>, 0, {})>>)
\* calls itself with a try_apply
selfrectryFn ==
  BaseFn(<<Blk(<<FuncRef(1, "selfrectry"),
                 TryApply(2, IV("selfrectry", 1), <<>>, 2, 3)>>, <<2, 3>>, 0, {}),
           Blk(<<Return(3)>>, <<>>, 0, {}),
           Blk(<<Return(4)>>, <<>>, 0, {})>>)

\* branches on a comparison of literals of its own (bb1, bb6), on a comparison
\* of its first argument (bb2), on its first argument (bb3) and on a sum with its
\* second argument (bb4); the blocks form a tree
constbrFn ==
  BaseFn(<<
    Blk(<<IntLit(1, 1),
          Builtin(2, "cmp_eq", <<AV("constbr", 1), IV("constbr", 1)>>),
          Builtin(3, "cmp_eq", <<IV("constbr", 1), IV("constbr", 1)>>),
          Builtin(4, "uadd_with_overflow", <<AV("constbr", 2), IV("constbr", 1)>>),
          Opaque(5, 3), CondBr(6, IV("constbr", 3), 2, 3)>>, <<2, 3>>, 0, {}),
    Blk(<<Opaque(10, 4), CondBr(11, IV("constbr", 2), 4, 5)>>, <<4, 5>>, 0, {}),
    Blk(<<Opaque(12, 4),
          SwitchValue(13, AV("constbr", 1), <<IV("constbr", 1)>>, <<6>>, 7)>>,
        <<6, 7>>, 0, {}),
    Blk(<<Opaque(14, 2), CondBr(15, IV("constbr", 4), 8, 9)>>, <<8, 9>>, 0, {}),
    Blk(<<Opaque(16, 30), Return(17)>>, <<>>, 0, {}),
    Blk(<<SwitchValue(18, IV("constbr", 3), <<IV("constbr", 1)>>, <<10>>, 11)>>,
        <<10, 11>>, 0, {}),
    Blk(<<Return(19)>>, <<>>, 0, {}),
    Blk(<<Return(20)>>, <<>>, 0, {}),
    Blk(<<Return(21)>>, <<>>, 0, {}),
    Blk(<<Return(22)>>, <<>>, 0, {}),
    Blk(<<Opaque(23, 7), Return(24)>>, <<>>, 0, {})>>)
\* bb1 stores to and loads from a stack location, overwrites it by copies from
\* the address passed as first argument and from a location of unknown
\* content, and branches on what it loaded; bb2 loads again and branches on a
\* value loaded in bb1
memblkFn ==
  BaseFn(<<
    Blk(<<AllocStack(1), IntLit(2, 1), IntLit(3, 0),
          Store(4, IV("memblk", 2), IV("memblk", 1)), Load(5, IV("memblk", 1)),
          Store(6, IV("memblk", 3), IV("memblk", 1)), Load(7, IV("memblk", 1)),
          CopyAddr(8, AV("memblk", 1), IV("memblk", 1), FALSE),
          Load(9, IV("memblk", 1)), AllocStack(10),
          CopyAddr(11, IV("memblk", 10), IV("memblk", 1), FALSE),
          Load(12, IV("memblk", 1)),
          CopyAddr(13, AV("memblk", 1), IV("memblk", 1), TRUE),
          Load(14, IV("memblk", 1)),
          Builtin(15, "cmp_eq", <<IV("memblk", 12), IV("memblk", 2)>>),
          CondBr(16, IV("memblk", 15), 2, 3)>>, <<2, 3>>, 0, {}),
    Blk(<<Load(20, IV("memblk", 1)), Load(21, AV("memblk", 1)),
          Builtin(22, "cmp_eq", <<IV("memblk", 9), IV("memblk", 2)>>),
          CondBr(23, IV("memblk", 22), 4, 5)>>, <<4, 5>>, 0, {}),
    Blk(<<Return(30)>>, <<>>, 0, {}),
    Blk(<<Return(31)>>, <<>>, 0, {}),
    Blk(<<Return(32)>>, <<>>, 0, {})>>)
\* how many builtins of deep are chained: one more than the depth limit
DeepChain == DepthLimit + 1
\* builtin 2 adds a literal to the argument and builtin k + 1 adds it to builtin
\* k; bb1 branches on the last builtin of the chain, bb2 on the second
deepFn ==
  BaseFn(<<
    Blk(<<IntLit(1, 1)>>
        \o [k \in 1..DeepChain |->
              Builtin(k + 1, "uadd_with_overflow",
                      <<IF k = 1 THEN AV("deep", 1) ELSE IV("deep", k), IV("deep", 1)>>)]
        \o <<CondBr(DeepChain + 2, IV("deep", DeepChain + 1), 2, 3)>>, <<2, 3>>, 0, {}),
    Blk(<<CondBr(DeepChain + 3, IV("deep", 3), 4, 5)>>, <<4, 5>>, 0, {}),
    Blk(<<Return(DeepChain + 4)>>, <<>>, 0, {}),
    Blk(<<Return(DeepChain + 5)>>, <<>>, 0, {}),
    Blk(<<Return(DeepChain + 6)>>, <<>>, 0, {})>>)
\* calls its argument first, then a builtin and an instruction of cost 7
applyfirstFn ==
  BaseFn(<<Blk(<<Apply(1, AV("applyfirst", 1), <<>>), IntLit(2, 1),
                 Builtin(3, "uadd_with_overflow",
                         <<IV("applyfirst", 2), IV("applyfirst", 2)>>),
                 Opaque(4, 7), Return(5)>>, <<>>, 0, {})>>)

\* ping calls pong and pong calls ping: neither holds a call of itself
pingFn ==
  BaseFn(<<Blk(<<FuncRef(1, "pong"), Apply(2, IV("ping", 1), <<>>), Return(3)>>,
               <<>>, 0, {})>>)
pongFn ==
  BaseFn(<<Blk(<<FuncRef(1, "ping"), Apply(2, IV("pong", 1), <<>>), Return(3)>>,
               <<>>, 0, {})>>)
\* outer works and calls leaf
outerFn ==
  BaseFn(<<Blk(<<Opaque(1, 3), FuncRef(2, "leaf"), Apply(3, IV("outer", 2), <<>>),
                 Return(4)>>, <<>>, 0, {})>>)

\* callers
\* stores a literal, loads it and calls constbr, memblk, deep and applyfirst
\* with literals, the loaded value, the address and an unknown value
trkFn ==
  BaseFn(<<
    Blk(<<AllocStack(1), IntLit(2, 1), IntLit(3, 0),
          Store(4, IV("trk", 2), IV("trk", 1)), Load(5, IV("trk", 1)), Opaque(6, 1),
          FuncRef(10, "constbr"), FuncRef(11, "memblk"), FuncRef(12, "deep"),
          FuncRef(13, "leaf"), FuncRef(14, "applyfirst"),
          Apply(20, IV("trk", 10), <<IV("trk", 2), IV("trk", 6)>>),
          Apply(21, IV("trk", 10), <<IV("trk", 5), IV("trk", 3)>>),
          Apply(22, IV("trk", 11), <<IV("trk", 1)>>),
          Apply(23, IV("trk", 12), <<IV("trk", 2)>>),
          Apply(24, IV("trk", 14), <<IV("trk", 13)>>),
          Apply(25, IV("trk", 10), <<IV("trk", 6), IV("trk", 2)>>),
          Return(30)>>, <<>>, 0, {})>>)
mainFn ==
  BaseFn(<<
    Blk(<<FuncRef(1, "leaf"), FuncRef(2, "mid"), FuncRef(3, "huge"),
          FuncRef(4, "always"), FuncRef(5, "never"), FuncRef(6, "ext"),
          FuncRef(7, "noopt"), FuncRef(8, "dynself"), FuncRef(9, "sem"),
          FuncRef(10, "avail"), FuncRef(11, "ginit"), FuncRef(12, "eff"),
          FuncRef(13, "selfrec"), FuncRef(14, "main"), FuncRef(15, "alwaysdyn"),
          FuncRef(16, "branchy"), FuncRef(17, "fallthru"), FuncRef(18, "twoblk"),
          IntLit(20, 1), IntLit(21, 0), Opaque(22, 1),
          Apply(30, IV("main", 1), <<>>), Apply(31, IV("main", 2), <<>>),
          Apply(32, IV("main", 3), <<>>), Apply(33, IV("main", 4), <<>>),
          Apply(34, IV("main", 5), <<>>), Apply(35, IV("main", 6), <<>>),
          Apply(36, IV("main", 7), <<>>), Apply(37, IV("main", 8), <<>>),
          Apply(38, IV("main", 9), <<>>), Apply(39, IV("main", 10), <<>>),
          Apply(40, IV("main", 11), <<>>), Apply(41, IV("main", 12), <<>>),
          Apply(42, IV("main", 13), <<>>), Apply(43, IV("main", 14), <<>>),
          Apply(44, IV("main", 15), <<>>), ApplySubst(45, IV("main", 1), <<>>),
          Apply(46, AV("main", 1), <<>>),
          Apply(47, IV("main", 16), <<IV("main", 20)>>),
          Apply(48, IV("main", 16), <<IV("main", 21)>>),
          Apply(49, IV("main", 16), <<IV("main", 22)>>),
          Apply(50, IV("main", 17), <<IV("main", 20)>>),
          Apply(51, IV("main", 18), <<>>),
          Apply(52, IV("main", 17), <<IV("main", 21)>>),
          CondBr(60, IV("main", 22), 2, 3)>>, <<2, 3>>, 0, {3}),
    Blk(<<Apply(69, IV("main", 4), <<>>),
          Apply(70, IV("main", 2), <<>>), Apply(71, IV("main", 1), <<>>),
          TryApply(72, IV("main", 1), <<>>, 6, 7)>>, <<6, 7>>, 1, {}),
    Blk(<<Apply(80, IV("main", 1), <<>>), Apply(81, IV("main", 2), <<>>),
          Apply(82, IV("main", 4), <<>>), Apply(83, IV("main", 5), <<>>),
          Apply(84, IV("main", 15), <<>>), Apply(85, IV("main", 3), <<>>),
          TryApply(86, IV("main", 4), <<>>, 4, 5)>>, <<4, 5>>, 0, {}),
    Blk(<<Apply(90, IV("main", 1), <<>>), Apply(91, IV("main", 2), <<>>),
          Return(92)>>, <<>>, 0, {}),
    Blk(<<Return(95)>>, <<>>, 0, {}),
    Blk(<<Return(96)>>, <<>>, 0, {}),
    Blk(<<Return(97)>>, <<>>, 0, {})>>)

\* bb1 calls the callees with builtins, passing a function reference, a closure
\* or an unknown value, and the callees with several attributes; bb2 is in a
\* loop
testerFn ==
  BaseFn(<<
    Blk(<<FuncRef(1, "leaf"), FuncRef(2, "bi2"), FuncRef(3, "bi3"),
          FuncRef(4, "clos3"), FuncRef(5, "clos5"), Opaque(6, 1),
          PartialApply(7, IV("tester", 1), <<>>),
          FuncRef(8, "ginitsem"), FuncRef(9, "giniteff"), FuncRef(10, "availeff"),
          FuncRef(11, "ginit"), FuncRef(12, "avail"), FuncRef(13, "selfrectry"),
          FuncRef(14, "selfrec"), FuncRef(15, "tester"),
          Apply(20, IV("tester", 2), <<>>), Apply(21, IV("tester", 3), <<>>),
          Apply(22, IV("tester", 4), <<IV("tester", 1)>>),
          Apply(23, IV("tester", 4), <<IV("tester", 6)>>),
          Apply(24, IV("tester", 5), <<IV("tester", 1)>>),
          Apply(25, IV("tester", 4), <<IV("tester", 7)>>),
          Apply(30, IV("tester", 8), <<>>), Apply(31, IV("tester", 9), <<>>),
          Apply(32, IV("tester", 10), <<>>), Apply(33, IV("tester", 11), <<>>),
          Apply(34, IV("tester", 12), <<>>), Apply(35, IV("tester", 13), <<>>),
          Apply(36, IV("tester", 14), <<>>), Apply(37, IV("tester", 15), <<>>),
          Br(40, 2)>>, <<2>>, 0, {}),
    Blk(<<Apply(50, IV("tester", 2), <<>>), Apply(51, IV("tester", 3), <<>>),
          Apply(52, IV("tester", 4), <<IV("tester", 1)>>),
          Return(60)>>, <<>>, 1, {})>>)

\* bb1 stores a literal and branches to bb2, over a slow-path edge, or to bb3;
\* bb2 and bb3 store, load and call with the loaded value
coldmemFn ==
  BaseFn(<<
    Blk(<<AllocStack(1), IntLit(2, 1), Store(3, IV("coldmem", 2), IV("coldmem", 1)),
          FuncRef(4, "twoblk"), FuncRef(5, "branchy"), Load(6, IV("coldmem", 1)),
          Apply(7, IV("coldmem", 4), <<>>), Opaque(8, 1),
          CondBr(9, IV("coldmem", 8), 2, 3)>>, <<2, 3>>, 0, {2}),
    Blk(<<Store(10, IV("coldmem", 2), IV("coldmem", 1)), Load(11, IV("coldmem", 1)),
          Apply(12, IV("coldmem", 4), <<>>),
          Apply(13, IV("coldmem", 5), <<IV("coldmem", 11)>>),
          Return(14)>>, <<>>, 0, {}),
    Blk(<<Store(15, IV("coldmem", 2), IV("coldmem", 1)), Load(16, IV("coldmem", 1)),
          Apply(17, IV("coldmem", 5), <<IV("coldmem", 16)>>),
          Return(18)>>, <<>>, 0, {})>>)

thunkFn ==
  BaseFn(<<Blk(<<FuncRef(1, "leaf"), FuncRef(2, "mid"), FuncRef(3, "always"),
                 Apply(4, IV("thunk", 1), <<>>), Apply(5, IV("thunk", 2), <<>>),
                 Apply(6, IV("thunk", 3), <<>>), Return(7)>>, <<>>, 0, {})>>)
fragileCallerFn ==
  BaseFn(<<Blk(<<FuncRef(1, "leaf"), FuncRef(2, "fragleaf"),
                 Apply(3, IV("fragileCaller", 1), <<>>),
                 Apply(4, IV("fragileCaller", 2), <<>>), Return(5)>>, <<>>, 0, {})>>)
oneCallFn(self, g) ==
  BaseFn(<<Blk(<<FuncRef(1, g), Apply(2, IV(self, 1), <<>>), Return(3)>>, <<>>, 0, {})>>)
\* a caller of size blocks whose entry block calls mid, leaf and mid
sizedFn(self) ==
  BaseFn(<<Blk(<<FuncRef(1, "mid"), FuncRef(2, "leaf"),
                 Apply(3, IV(self, 1), <<>>), Apply(4, IV(self, 2), <<>>),
                 Apply(5, IV(self, 1), <<>>), Return(6)>>, <<>>, 0, {})>>)
\* one block of n calls of leaf; the last one passes substitutions when subst
manyFn(self, n, subst) ==
  [BaseFn(<<>>) EXCEPT !.body =
    [insts |-> [i \in 1..(n + 2) |->
                  IF i = 1 THEN FuncRef(1, "leaf")
                  ELSE IF i = n + 2 THEN Return(i)
                  ELSE IF subst /\ i = n + 1 THEN ApplySubst(i, IV(self, 1), <<>>)
                  ELSE Apply(i, IV(self, 1), <<>>)],
     blocks |-> <<[ids |-> [i \in 1..(n + 2) |-> i], children |-> <<>>,
                   loopDepth |-> 0, slow |-> {}]>>]]

\* bb1 holds n calls of g and branches to bb2, over a slow-path edge, or to
\* bb3; bb2 holds one more call of g
manyColdFn(self, n, g) ==
  [BaseFn(<<>>) EXCEPT !.body =
    [insts |-> [i \in 1..(n + 5) |->
                  IF i = 1 THEN FuncRef(1, g)
                  ELSE IF i = n + 2 THEN CondBr(i, IV(self, 1), 2, 3)
                  ELSE IF i \in {n + 4, n + 5} THEN Return(i)
                  ELSE Apply(i, IV(self, 1), <<>>)],
     blocks |-> <<[ids |-> [i \in 1..(n + 2) |-> i], children |-> <<2, 3>>,
                   loopDepth |-> 0, slow |-> {2}],
                  [ids |-> <<n + 3, n + 4>>, children |-> <<>>,
                   loopDepth |-> 0, slow |-> {}],
                  [ids |-> <<n + 5>>, children |-> <<>>,
                   loopDepth |-> 0, slow |-> {}]>>]]

Module ==
  [leaf |-> leafFn,
   mid |-> midFn,
   huge |-> hugeFn,
   twoblk |-> twoblkFn,
   always |-> [hugeFn EXCEPT !.strategy = "AlwaysInline"],
   never |-> [leafFn EXCEPT !.strategy = "NoInline"],
   ext |-> [BaseFn(<<>>) EXCEPT !.external = TRUE],
   noopt |-> [leafFn EXCEPT !.optimize = FALSE],
   dynself |-> [leafFn EXCEPT !.dynSelf = TRUE],
   alwaysdyn |-> [leafFn EXCEPT !.strategy = "AlwaysInline", !.dynSelf = TRUE],
   sem |-> [leafFn EXCEPT !.semantics = {<<"array", "get_element">>}],
   avail |-> [leafFn EXCEPT !.semantics = {<<"availability", "osversion">>}],
   ginit |-> [leafFn EXCEPT !.globalInit = TRUE],
   eff |-> [leafFn EXCEPT !.effects = TRUE],
   fragleaf |-> [leafFn EXCEPT !.fragile = TRUE],
   selfrec |-> selfrecFn,
   selfrectry |-> selfrectryFn,
   bi2 |-> builtinsFn("bi2", 2, FALSE),
   bi3 |-> builtinsFn("bi3", 3, FALSE),
   clos3 |-> builtinsFn("clos3", 3, TRUE),
   clos5 |-> builtinsFn("clos5", 5, TRUE),
   ginitsem |-> [leafFn EXCEPT !.globalInit = TRUE,
                               !.semantics = {<<"array", "get_element">>}],
   giniteff |-> [leafFn EXCEPT !.globalInit = TRUE, !.effects = TRUE],
   availeff |-> [leafFn EXCEPT !.semantics = {<<"availability", "osversion">>},
                               !.effects = TRUE],
   branchy |-> branchyFn,
   fallthru |-> fallthruFn,
   main |-> mainFn,
   tester |-> testerFn,
   coldmem |-> coldmemFn,
   constbr |-> constbrFn,
   memblk |-> memblkFn,
   deep |-> deepFn,
   applyfirst |-> applyfirstFn,
   trk |-> trkFn,
   ping |-> pingFn,
   pong |-> pongFn,
   outer |-> outerFn,
   pingCaller |-> oneCallFn("pingCaller", "ping"),
   outerCaller |-> oneCallFn("outerCaller", "outer"),
   thunk |-> [thunkFn EXCEPT !.thunk = TRUE],
   fragileCaller |-> [fragileCallerFn EXCEPT !.fragile = TRUE],
   nooptCaller |-> [oneCallFn("nooptCaller", "leaf") EXCEPT !.optimize = FALSE],
   neverCaller |-> oneCallFn("neverCaller", "never"),
   sized |-> [sizedFn("sized") EXCEPT !.extraBlocks = SizedCallerBlocks - 1],
   many1025 |-> manyFn("many1025", CallsToCalleeThreshold + 1, FALSE),
   many1024 |-> manyFn("many1024", CallsToCalleeThreshold, FALSE),
   many1025s |-> manyFn("many1025s", CallsToCalleeThreshold + 1, TRUE),
   many1025c |-> manyColdFn("many1025c", CallsToCalleeThreshold, "always")]

SmallCallers == {"main", "tester", "coldmem", "thunk", "fragileCaller", "nooptCaller", "neverCaller", "sized"}
BigCallers == {"many1025", "many1024", "many1025s", "many1025c"}

\* clones of the instructions of an inlined callee get identities above IdBase
IdBase == CallsToCalleeThreshold + 16

\* ------------------------------------------------------------------------
\* State
\* ------------------------------------------------------------------------
VARIABLES
  program,              \* the functions of the SILModule, by name
  Caller,               \* the function the pass runs on (getFunction())
  InlineThreshold,      \* getOptions().InlineThreshold
  TestThreshold,        \* -sil-inline-test-threshold
  WhatToInline,         \* the InlineSelection of the pass
  NDEBUG,               \* TRUE: assertions are compiled out
  spliceFails,          \* the callees the splice service fails to inline
  ir,                   \* the body of Caller, mutated in place by the driver
  pc,                   \* the position of the pass
  domOrder,             \* the DominanceOrder of collectAppliesToInline
  constTracker,         \* the ConstantTracker of the caller
  NumCallerBlocks,
  InitialCandidates,
  AppliesToInline,
  driverIdx,            \* the position of the driver in AppliesToInline
  NumFunctionsInlined,  \* the statistic
  retval,               \* what inlineCallsIntoFunction returned
  passLog,              \* the calls run() made on the pass manager, in order
  runs,                 \* how many times run() was entered
  ir0,                  \* the body of Caller when the current run() began
  spliced,              \* the call sites spliced by the current run, in order
  decisions,            \* the calls of isProfitableToInline of the current run
  coldLog,              \* the calls of isProfitableInColdBlock of the current run
  prevRun,              \* ir0 and the lists of the run before the current one
  fnIn, fnOut           \* the inputs and results of the functions applied alone

vars == <<program, Caller, InlineThreshold, TestThreshold, WhatToInline, NDEBUG,
          spliceFails, ir, pc, domOrder, constTracker,
          NumCallerBlocks, InitialCandidates, AppliesToInline, driverIdx,
          NumFunctionsInlined, retval, passLog, runs, ir0, spliced,
          decisions, coldLog, prevRun, fnIn, fnOut>>

\* ------------------------------------------------------------------------
\* IR queries
\* ------------------------------------------------------------------------
FnBody(f) == IF f = Caller THEN ir ELSE program[f].body
HasInst(v) == v.k = "inst" /\ v.n \in DOMAIN FnBody(v.f).insts
InstOf(v) == FnBody(v.f).insts[v.n]
KindOf(v) == IF HasInst(v) THEN InstOf(v).kind ELSE ""
\* SILFunction::size(): the number of blocks
FnSize(f) == Len(FnBody(f).blocks) + program[f].extraBlocks
Terminator(body, b) == body.insts[body.blocks[b].ids[Len(body.blocks[b].ids)]]
\* the destinations of terminator t
Dests(t) == {t.succ[i] : i \in 1..Len(t.succ)} \cup (IF t.dflt = 0 THEN {} ELSE {t.dflt})
Preds(body, b) == {p \in 1..Len(body.blocks) : b \in Dests(Terminator(body, p))}
\* SILBasicBlock::getSinglePredecessor(): 0 when there is not exactly one
singleOf(preds) == IF Cardinality(preds) = 1 THEN CHOOSE p \in preds : TRUE ELSE 0
getSinglePredecessor(body, b) == singleOf(Preds(body, b))

Range(seq) == {seq[i] : i \in 1..Len(seq)}
Get(m, k) == IF k \in DOMAIN m THEN m[k] ELSE NoVal
Put(m, k, v) == [x \in DOMAIN m \cup {k} |-> IF x = k THEN v ELSE m[x]]
EmptyMap == [x \in {} |-> NoVal]
Range2(m) == {m[k] : k \in DOMAIN m}
orElse(a, b) == IF a # NoVal THEN a ELSE b

\* ------------------------------------------------------------------------
\* ConstantTracker.  A tracker is a record: F the function tracked, args the
\* arguments of the apply AI in the caller (hasCaller: it is the tracker of a
\* callee), links, memoryContent, constCache, and the links and memoryContent
\* of the caller's tracker.
\* ------------------------------------------------------------------------
NoTracker == [links |-> EmptyMap, memoryContent |-> EmptyMap]

CallerTracker(f) ==
  [F |-> f, hasCaller |-> FALSE, args |-> <<>>, links |-> EmptyMap,
   memoryContent |-> EmptyMap, constCache |-> EmptyMap, callerTracker |-> NoTracker]

CalleeTracker(f, caller, args) ==
  [F |-> f, hasCaller |-> TRUE, args |-> args, links |-> EmptyMap,
   memoryContent |-> EmptyMap, constCache |-> EmptyMap,
   callerTracker |-> [links |-> caller.links, memoryContent |-> caller.memoryContent]]

getParam(T, value) ==
  IF value.k = "arg" /\ T.hasCaller /\ value.f = T.F /\ value.n <= Len(T.args)
  THEN T.args[value.n]
  ELSE NoVal

getMemoryContent(T, addr) ==
  orElse(Get(T.memoryContent, addr),
         IF T.hasCaller THEN Get(T.callerTracker.memoryContent, addr) ELSE NoVal)

\* beginBlock that clears nothing
beginBlockKeeps(T) == T
beginBlock(T) == [T EXCEPT !.memoryContent = EmptyMap]

\* the base address of addr and the address projections walked through
RECURSIVE scanProjections(_, _, _)
scanProjection(T, I, Result) ==
  scanProjections(T, I.ops[1], Append(Result, I.val))
scanParam(T, param, addr, Result) ==
  IF param # NoVal THEN scanProjections(T, param, Result)
  ELSE [base |-> addr, projs |-> Result]
scanProjections(T, addr, Result) ==
  IF KindOf(addr) = "struct_element_addr" THEN scanProjection(T, InstOf(addr), Result)
  ELSE scanParam(T, getParam(T, addr), addr, Result)

baseAddr(T, addr) == scanProjections(T, addr, <<>>).base

trackLoad(T, inst, loadLink) ==
  IF loadLink # NoVal THEN [T EXCEPT !.links = Put(@, inst, loadLink)] ELSE T
trackStore(T, inst, storeAddr) ==
  [T EXCEPT !.memoryContent = Put(@, storeAddr, inst)]
trackCopyAddr(T, inst, addrs, loadLink) ==
  IF loadLink # NoVal
  THEN [T EXCEPT !.links = Put(@, inst, loadLink),
                 !.memoryContent = Put(@, baseAddr(T, addrs[2]), inst)]
  ELSE T
trackInstOf(T, inst, I) ==
  IF I.kind = "load"
  THEN trackLoad(T, inst, getMemoryContent(T, baseAddr(T, I.ops[1])))
  ELSE IF I.kind = "store" THEN trackStore(T, inst, baseAddr(T, I.ops[2]))
  ELSE IF I.kind = "copy_addr" /\ ~I.take
  THEN trackCopyAddr(T, inst, I.ops, getMemoryContent(T, baseAddr(T, I.ops[1])))
  ELSE T
trackInst(T, inst) == trackInstOf(T, inst, InstOf(inst))

\* pops the projections of the store, innermost first, off the stack
RECURSIVE popProjections(_, _)
popProjections(projStack, storeProjections) ==
  IF storeProjections = <<>> THEN [ok |-> TRUE, stack |-> projStack]
  ELSE IF projStack = <<>>
          \/ projStack[Len(projStack)] # storeProjections[Len(storeProjections)]
  THEN [ok |-> FALSE, stack |-> projStack]
  ELSE popProjections(SubSeq(projStack, 1, Len(projStack) - 1),
                      SubSeq(storeProjections, 1, Len(storeProjections) - 1))

\* links[loadInst], or else the caller tracker's
linkOf(T, loadInst) ==
  orElse(Get(T.links, loadInst),
         IF T.hasCaller THEN Get(T.callerTracker.links, loadInst) ELSE NoVal)

RECURSIVE getStoredValue(_, _, _)
storedValueAt(T, store, S, popped) ==
  IF ~popped.ok THEN [val |-> NoVal, stack |-> popped.stack]
  ELSE IF S.kind = "store" THEN [val |-> S.ops[1], stack |-> popped.stack]
  ELSE getStoredValue(T, store, popped.stack)
storedValueOf(T, loadInst, projStack, store) ==
  IF store = NoVal THEN [val |-> NoVal, stack |-> projStack]
  ELSE storedValueAt(T, store, InstOf(store),
         popProjections(
           projStack \o scanProjections(T, InstOf(loadInst).ops[1], <<>>).projs,
           scanProjections(T, InstOf(store).ops[2], <<>>).projs))
getStoredValue(T, loadInst, projStack) ==
  storedValueOf(T, loadInst, projStack, linkOf(T, loadInst))

\* the aggregate member the top of the projection stack selects
getMember(I, projStack) ==
  IF projStack # <<>> /\ I.kind = "struct" /\ projStack[Len(projStack)] \in 1..Len(I.ops)
  THEN I.ops[projStack[Len(projStack)]]
  ELSE NoVal

\* the estimated definition of val: an instruction, or NoVal
RECURSIVE getDefStack(_, _, _)
defAfterLoad(T, val, I, loaded) ==
  IF loaded.val # NoVal THEN getDefStack(T, loaded.val, loaded.stack)
  ELSE IF I.kind = "thin_to_thick_function" THEN getDefStack(T, I.ops[1], loaded.stack)
  ELSE val
defOfInst(T, val, I, projStack, member) ==
  IF I.kind = "struct_extract"
  THEN getDefStack(T, I.ops[1], Append(projStack, I.val))
  ELSE IF member # NoVal
  THEN getDefStack(T, member, SubSeq(projStack, 1, Len(projStack) - 1))
  ELSE defAfterLoad(T, val, I, getStoredValue(T, val, projStack))
defOfParam(T, param, projStack) ==
  IF param # NoVal THEN getDefStack(T, param, projStack) ELSE NoVal
getDefStack(T, val, projStack) ==
  IF HasInst(val)
  THEN defOfInst(T, val, InstOf(val), projStack, getMember(InstOf(val), projStack))
  ELSE defOfParam(T, getParam(T, val), projStack)

getDef(T, val) == getDefStack(T, val, <<>>)

inCaller(T, def) == IF def # NoVal /\ def.f # T.F THEN def ELSE NoVal
getDefInCaller(T, val) == inCaller(T, getDef(T, val))

\* ------------------------------------------------------------------------
\* Integer constant estimation
\* ------------------------------------------------------------------------
InvalidConst == [value |-> 0, isValid |-> FALSE, isFromCaller |-> FALSE]
IntConst(value, isFromCaller) ==
  [value |-> value, isValid |-> TRUE, isFromCaller |-> isFromCaller]

PredicateOps == {"cmp_eq", "cmp_ne", "cmp_ult"}
OverflowOps == {"uadd_with_overflow", "usub_with_overflow", "umul_with_overflow"}
DivOps == {"udiv", "urem"}
BitOps == {"shl", "lshr"}
CastOps == {"trunc", "zext"}

\* the constant folding rules, on IntBits wide unsigned values
constantFold(op, l, r) ==
  CASE op = "cmp_eq" -> IF l = r THEN 1 ELSE 0
    [] op = "cmp_ne" -> IF l # r THEN 1 ELSE 0
    [] op = "cmp_ult" -> IF l < r THEN 1 ELSE 0
    [] op = "uadd_with_overflow" -> (l + r) % (2^IntBits)
    [] op = "usub_with_overflow" -> (l - r) % (2^IntBits)
    [] op = "umul_with_overflow" -> (l * r) % (2^IntBits)
    [] op = "udiv" -> l \div r
    [] op = "urem" -> l % r
    [] op = "shl" -> IF r >= IntBits THEN 0 ELSE (l * 2^r) % (2^IntBits)
    [] op = "lshr" -> IF r >= IntBits THEN 0 ELSE l \div 2^r
    [] op = "trunc" -> l % 2
    [] op = "zext" -> l

\* getIntConst and getBuiltinConst return [c |-> the IntConst, cache |-> the
\* constCache afterwards, deepest |-> the greatest depth getIntConst was
\* called with]
RECURSIVE getIntConstCache(_, _, _, _)
deeper(a, b) == IF a >= b THEN a ELSE b
binaryConst(op, lhs, rhs) ==
  [c |-> IF lhs.c.isValid /\ rhs.c.isValid /\ (op \in DivOps => rhs.c.value # 0)
         THEN IntConst(constantFold(op, lhs.c.value, rhs.c.value),
                       lhs.c.isFromCaller \/ rhs.c.isFromCaller)
         ELSE InvalidConst,
   cache |-> rhs.cache,
   deepest |-> deeper(lhs.deepest, rhs.deepest)]
binaryWith(T, I, lhs, depth) ==
  binaryConst(I.bop, lhs, getIntConstCache(T, lhs.cache, I.ops[2], depth))
castConst(op, val) ==
  [c |-> IF val.c.isValid
         THEN IntConst(constantFold(op, val.c.value, 0), val.c.isFromCaller)
         ELSE InvalidConst,
   cache |-> val.cache, deepest |-> val.deepest]
builtinConstOf(T, cache, I, depth) ==
  IF I.bop \in PredicateOps \cup OverflowOps \cup DivOps \cup BitOps
  THEN binaryWith(T, I, getIntConstCache(T, cache, I.ops[1], depth), depth)
  ELSE IF I.bop \in CastOps
  THEN castConst(I.bop, getIntConstCache(T, cache, I.ops[1], depth))
  ELSE [c |-> InvalidConst, cache |-> cache, deepest |-> 0]
getBuiltinConst(T, cache, BI, depth) == builtinConstOf(T, cache, InstOf(BI), depth)

\* constCache[BI] = builtinConst
cacheConst(BI, builtinConst) ==
  [c |-> builtinConst.c, cache |-> Put(builtinConst.cache, BI, builtinConst.c),
   deepest |-> builtinConst.deepest]
intConstOfDef(T, cache, I, kind, depth) ==
  IF kind = "integer_literal"
  THEN [c |-> IntConst(InstOf(I).val % (2^IntBits), I.f # T.F), cache |-> cache,
        deepest |-> depth]
  ELSE IF kind = "builtin"
  THEN (IF I \in DOMAIN cache THEN [c |-> cache[I], cache |-> cache, deepest |-> depth]
        ELSE [cacheConst(I, getBuiltinConst(T, cache, I, depth + 1))
                EXCEPT !.deepest = deeper(@, depth)])
  ELSE [c |-> InvalidConst, cache |-> cache, deepest |-> depth]
intConstOf(T, cache, I, depth) == intConstOfDef(T, cache, I, KindOf(I), depth)
\* getIntConst without the test of the depth
getIntConstUnlimited(T, cache, val, depth) ==
  intConstOf(T, cache, getDef(T, val), depth)
getIntConstCache(T, cache, val, depth) ==
  IF depth >= DepthLimit THEN [c |-> InvalidConst, cache |-> cache, deepest |-> depth]
  ELSE intConstOf(T, cache, getDef(T, val), depth)

\* getIntConst(val) at depth 0 on tracker T
getIntConst(T, val) == getIntConstCache(T, T.constCache, val, 0)

\* ------------------------------------------------------------------------
\* Eligibility
\* ------------------------------------------------------------------------
NoFn == ""
IsFullApply(I) == I.kind \in {"apply", "try_apply"}

\* FullApplySite::getReferencedFunction(), read in body
getReferencedFunctionIn(body, I) ==
  IF I.ops[1].k = "inst" /\ I.ops[1].n \in DOMAIN body.insts
     /\ body.insts[I.ops[1].n].kind = "function_ref"
  THEN body.insts[I.ops[1].n].fref
  ELSE NoFn

selfRecursiveIn(body, Callee) ==
  \E n \in DOMAIN body.insts :
     /\ IsFullApply(body.insts[n])
     /\ getReferencedFunctionIn(body, body.insts[n]) = Callee
\* calleeIsSelfRecursive when the body of the callee is not looked at
calleeNeverSelfRecursive(Callee) == FALSE
calleeIsSelfRecursive(Callee) == selfRecursiveIn(FnBody(Callee), Callee)

hasSemanticsAttrThatStartsWith(C, prefix) ==
  \E a \in C.semantics : Len(a) >= 1 /\ a[1] = prefix

\* the tests of getEligibleFunction on the callee Callee, with attributes C,
\* of the full apply site I of function caller
eligibleCallee(caller, I, Callee, C) ==
  IF (C.semantics # {} \/ C.effects) /\ WhatToInline = "NoSemanticsAndGlobalInit"
  THEN NoFn
  ELSE IF (C.semantics # {} \/ C.effects) /\ C.semantics # {}
          /\ WhatToInline # "Everything"
          /\ hasSemanticsAttrThatStartsWith(C, "availability") THEN NoFn
  ELSE IF ~(C.semantics # {} \/ C.effects) /\ C.globalInit
          /\ WhatToInline # "Everything" THEN NoFn
  ELSE IF Len(FnBody(Callee).blocks) = 0 \/ C.external THEN NoFn
  ELSE IF C.strategy = "NoInline" THEN NoFn
  ELSE IF ~C.optimize THEN NoFn
  ELSE IF I.subst THEN NoFn
  ELSE IF C.dynSelf THEN NoFn
  ELSE IF caller = Callee THEN NoFn
  ELSE IF program[caller].fragile /\ ~C.fragile THEN NoFn
  ELSE IF calleeIsSelfRecursive(Callee) THEN NoFn
  ELSE Callee

eligibleOrNone(caller, I, Callee) ==
  IF Callee = NoFn THEN NoFn ELSE eligibleCallee(caller, I, Callee, program[Callee])

\* getEligibleFunction for the full apply site I of function caller with
\* body body: the callee, or NoFn
getEligibleFunctionIn(caller, body, I) ==
  eligibleOrNone(caller, I, getReferencedFunctionIn(body, I))

getReferencedFunction(AI) == getReferencedFunctionIn(ir, ir.insts[AI])
getEligibleFunction(AI) == getEligibleFunctionIn(Caller, ir, ir.insts[AI])

\* ------------------------------------------------------------------------
\* Cost model and terminator folding
\* ------------------------------------------------------------------------
\* testCost when the instructions of unknown kind cost 1 as well
testCostOther(I) == IF I.kind \in {"builtin", "other"} THEN 1 ELSE 0
testCost(I) == IF I.kind = "builtin" THEN 1 ELSE 0
instructionInlineCost(I) == I.cost

\* the loop of getTakenBlock over the cases of a switch_value from case Idx
\* on: [bb |-> the destination (0: a case that is no literal ends the search),
\* found |-> the loop returned]
RECURSIVE switchValueCase(_, _, _, _)
switchValueCase(body, SVI, value, Idx) ==
  IF Idx > Len(SVI.cases) THEN [bb |-> 0, found |-> FALSE]
  ELSE IF SVI.cases[Idx].k = "inst" /\ SVI.cases[Idx].n \in DOMAIN body.insts
          /\ body.insts[SVI.cases[Idx].n].kind = "integer_literal"
  THEN IF value = body.insts[SVI.cases[Idx].n].val % (2^IntBits)
       THEN [bb |-> SVI.succ[Idx], found |-> TRUE]
       ELSE switchValueCase(body, SVI, value, Idx + 1)
  ELSE [bb |-> 0, found |-> TRUE]

switchDest(SVI, hit) == IF hit.found THEN hit.bb ELSE SVI.dflt

\* takenOf when every valid constant resolves the terminator
takenOfValid(f, term, const) ==
  [bb |-> IF ~const.c.isValid THEN 0
          ELSE IF term.kind = "cond_br"
          THEN (IF const.c.value # 0 THEN term.succ[1] ELSE term.succ[2])
          ELSE switchDest(term, switchValueCase(FnBody(f), term, const.c.value, 1)),
   cache |-> const.cache]
takenOf(f, term, const) ==
  [bb |-> IF ~const.c.isFromCaller THEN 0
          ELSE IF term.kind = "cond_br"
          THEN (IF const.c.value # 0 THEN term.succ[1] ELSE term.succ[2])
          ELSE switchDest(term, switchValueCase(FnBody(f), term, const.c.value, 1)),
   cache |-> const.cache]

\* getTakenBlock for terminator term of function f: [bb |-> the taken block or
\* 0, cache |-> the constCache afterwards]
getTakenBlock(f, term, T) ==
  IF term.kind \in {"cond_br", "switch_value"}
  THEN takenOf(f, term, getIntConst(T, term.ops[1]))
  ELSE [bb |-> 0, cache |-> T.constCache]

\* ------------------------------------------------------------------------
\* Profitability
\* ------------------------------------------------------------------------
\* the definition in the caller of the callee operand of an apply
calleeDef(T, I) == IF I.kind = "apply" THEN getDefInCaller(T, I.ops[1]) ELSE NoVal
isConstCallee(def) ==
  def # NoVal /\ KindOf(def) \in {"function_ref", "partial_apply"}

\* the walk of isProfitableToInline: W holds constTracker, CalleeCost, Benefit,
\* testThreshold, the DominanceOrder (buffer, srcIdx) and the terminators
\* getTakenBlock resolved, as <<block, taken block>>
walkCounted(W, I, loopDepth, tracked, constCallee) ==
  [W EXCEPT !.constTracker = tracked,
            !.CalleeCost = @ + (IF W.testThreshold >= 0 THEN testCost(I)
                                ELSE instructionInlineCost(I)),
            !.Benefit = IF constCallee
                        THEN @ + ConstCalleeBenefit + loopDepth * LoopBenefitFactor
                        ELSE @,
            !.testThreshold = IF constCallee THEN doubleS32(@) ELSE @]
walkTracked(W, I, loopDepth, tracked) ==
  walkCounted(W, I, loopDepth, tracked, isConstCallee(calleeDef(tracked, I)))
walkInst(W, inst, loopDepth) ==
  walkTracked(W, InstOf(inst), loopDepth, trackInst(W.constTracker, inst))

\* the loop over the instructions of block b of Callee from instruction i on
RECURSIVE walkInsts(_, _, _, _)
walkInsts(W, Callee, b, i) ==
  IF i > Len(FnBody(Callee).blocks[b].ids) THEN W
  ELSE walkInsts(walkInst(W, IV(Callee, FnBody(Callee).blocks[b].ids[i]),
                          FnBody(Callee).blocks[b].loopDepth),
                 Callee, b, i + 1)

\* pushIfTaken when every child is pushed
pushAlways(body, b, child, takenBlock) == TRUE
\* pushIfTaken when a child is pushed if the block is its single predecessor
pushIfSolePredecessor(body, b, child, takenBlock) ==
  getSinglePredecessor(body, child) = b \/ child = takenBlock
\* the predicate of pushChildrenIf when takenBlock is known
pushIfTaken(body, b, child, takenBlock) ==
  getSinglePredecessor(body, child) # b \/ child = takenBlock

pushedChildren(body, b, takenBlock) ==
  IF takenBlock # 0
  THEN SelectSeq(body.blocks[b].children,
                 LAMBDA child : pushIfTaken(body, b, child, takenBlock))
  ELSE body.blocks[b].children

walkTaken(W, body, b, taken) ==
  [W EXCEPT !.constTracker.constCache = taken.cache,
            !.Benefit = IF taken.bb # 0 THEN @ + ConstTerminatorBenefit ELSE @,
            !.resolved = IF taken.bb # 0 THEN Append(@, <<b, taken.bb>>) ELSE @,
            !.buffer = @ \o pushedChildren(body, b, taken.bb)]
walkTerminator(W, Callee, b) ==
  walkTaken(W, FnBody(Callee), b,
            getTakenBlock(Callee, Terminator(FnBody(Callee), b), W.constTracker))
walkBlock(W, Callee, b) ==
  walkTerminator(walkInsts([W EXCEPT !.srcIdx = @ + 1,
                                     !.constTracker = beginBlock(@)], Callee, b, 1),
                 Callee, b)

\* while (SILBasicBlock *block = domOrder.getNext())
RECURSIVE walkBlocks(_, _)
walkBlocks(W, Callee) ==
  IF W.srcIdx = Len(W.buffer) THEN W
  ELSE walkBlocks(walkBlock(W, Callee, W.buffer[W.srcIdx + 1]), Callee)

\* the state of the walk of Callee for the apply AI of the caller when it ends
beginWalk(AI, Callee, loopDepthOfAI, callerTracker) ==
  [constTracker |-> CalleeTracker(Callee, callerTracker, Tail(ir.insts[AI].ops)),
   CalleeCost |-> 0,
   Benefit |-> (IF InlineThreshold > 0 THEN InlineThreshold ELSE RemovedCallBenefit)
               + loopDepthOfAI * LoopBenefitFactor,
   testThreshold |-> TestThreshold,
   buffer |-> <<1>>, srcIdx |-> 0, resolved |-> <<>>]
calleeWalk(AI, Callee, loopDepthOfAI, callerTracker) ==
  walkBlocks(beginWalk(AI, Callee, loopDepthOfAI, callerTracker), Callee)

blockMinus(NumBlocks) ==
  divU32(mulU32(divU32(mulU32(NumBlocks, NumBlocks), BlockLimitDenominator),
                 NumBlocks), BlockLimitDenominator)

reducedThreshold(Benefit, minus) ==
  IF Benefit > minus + TrivialFunctionThreshold THEN Benefit - minus
  ELSE TrivialFunctionThreshold

computeThreshold(Benefit, testThreshold, isThunk, NumBlocks) ==
  IF testThreshold >= 0 THEN testThreshold
  ELSE IF isThunk THEN TrivialFunctionThreshold
  ELSE reducedThreshold(Benefit, blockMinus(NumBlocks))

\* what isProfitableToInline did: its arguments, the end of its walk, its
\* result (profitable) and NumCallerBlocks afterwards
NoDecision ==
  [AI |-> 0, Callee |-> "", loopDepth |-> 0, walked |-> FALSE, profitable |-> FALSE,
   NumBlocks |-> 0, NumCallerBlocks |-> 0, CalleeCost |-> 0, Benefit |-> 0,
   testThreshold |-> 0, Threshold |-> 0, visited |-> <<>>, resolved |-> <<>>]

\* decideThreshold when the accepted callee is not added to NumCallerBlocks
decideThresholdNoGrowth(D, W, Threshold, size) ==
  [D EXCEPT !.walked = TRUE,
            !.profitable = ~(W.CalleeCost > Threshold),
            !.CalleeCost = W.CalleeCost, !.Benefit = W.Benefit,
            !.testThreshold = W.testThreshold, !.Threshold = Threshold,
            !.visited = W.buffer, !.resolved = W.resolved]
decideThreshold(D, W, Threshold, size) ==
  [D EXCEPT !.walked = TRUE,
            !.profitable = ~(W.CalleeCost > Threshold),
            !.NumCallerBlocks = IF W.CalleeCost > Threshold THEN @ ELSE @ + size,
            !.CalleeCost = W.CalleeCost, !.Benefit = W.Benefit,
            !.testThreshold = W.testThreshold, !.Threshold = Threshold,
            !.visited = W.buffer, !.resolved = W.resolved]
decideWalk(D, W) ==
  decideThreshold(D, W,
                  computeThreshold(W.Benefit, W.testThreshold,
                                   program[Caller].thunk, D.NumBlocks),
                  FnSize(D.Callee))
decideCallee(D, callerTracker) ==
  IF program[D.Callee].strategy = "AlwaysInline"
  THEN [D EXCEPT !.profitable = TRUE]
  ELSE decideWalk(D, calleeWalk(D.AI, D.Callee, D.loopDepth, callerTracker))

isProfitableToInline(AI, loopDepthOfAI, callerTracker, NumBlocks) ==
  decideCallee([NoDecision EXCEPT !.AI = AI, !.Callee = getReferencedFunction(AI),
                                  !.loopDepth = loopDepthOfAI,
                                  !.NumBlocks = NumBlocks,
                                  !.NumCallerBlocks = NumBlocks],
               callerTracker)

\* the instructions of all blocks of body from block b on, in block order
RECURSIVE flatIds(_, _)
flatIds(body, b) ==
  IF b > Len(body.blocks) THEN <<>> ELSE body.blocks[b].ids \o flatIds(body, b + 1)

\* the loops of isProfitableInColdBlock from instruction i of ids on
RECURSIVE coldLoop(_, _, _, _, _)
\* coldStep when the cost is held against RemovedCallBenefit
coldStepBenefit(body, ids, i, CalleeCost, testThreshold) ==
  IF testThreshold >= 0
  THEN (IF CalleeCost > 0 THEN FALSE
        ELSE coldLoop(body, ids, i + 1, CalleeCost, testThreshold))
  ELSE (IF CalleeCost > RemovedCallBenefit THEN FALSE
        ELSE coldLoop(body, ids, i + 1, CalleeCost, testThreshold))
coldStep(body, ids, i, CalleeCost, testThreshold) ==
  IF testThreshold >= 0
  THEN (IF CalleeCost > 0 THEN FALSE
        ELSE coldLoop(body, ids, i + 1, CalleeCost, testThreshold))
  ELSE (IF CalleeCost > TrivialFunctionThreshold THEN FALSE
        ELSE coldLoop(body, ids, i + 1, CalleeCost, testThreshold))
coldLoop(body, ids, i, CalleeCost, testThreshold) ==
  IF i > Len(ids) THEN TRUE
  ELSE coldStep(body, ids, i,
                CalleeCost + (IF testThreshold >= 0 THEN testCost(body.insts[ids[i]])
                              ELSE instructionInlineCost(body.insts[ids[i]])),
                testThreshold)

\* isProfitableInColdBlock when test mode is looked at first
isProfitableInColdBlockTestFirst(AI, Callee) ==
  IF TestThreshold >= 0 THEN FALSE
  ELSE IF program[Callee].strategy = "AlwaysInline" THEN TRUE
  ELSE coldLoop(FnBody(Callee), flatIds(FnBody(Callee), 1), 1, 0, TestThreshold)

isProfitableInColdBlock(AI, Callee) ==
  IF program[Callee].strategy = "AlwaysInline" THEN TRUE
  ELSE IF TestThreshold >= 0 THEN FALSE
  ELSE coldLoop(FnBody(Callee), flatIds(FnBody(Callee), 1), 1, 0, TestThreshold)

\* ------------------------------------------------------------------------
\* The splice service and the dead-code pruning service
\* ------------------------------------------------------------------------
IsTerminator(I) == I.kind \in {"return", "br", "cond_br", "switch_value", "try_apply"}
PureKinds == {"function_ref", "integer_literal", "struct", "struct_extract",
              "struct_element_addr", "thin_to_thick_function"}

cloneId(AI, n) == AI * IdBase + n

cloneValue(Callee, AI, Args, v) ==
  IF v.f = Callee /\ v.k = "arg" THEN (IF v.n <= Len(Args) THEN Args[v.n] ELSE NoVal)
  ELSE IF v.f = Callee /\ v.k = "inst" THEN IV(Caller, cloneId(AI, v.n))
  ELSE v

cloneInst(Callee, AI, Args, I) ==
  [I EXCEPT !.id = cloneId(AI, I.id),
            !.ops = [i \in 1..Len(@) |-> cloneValue(Callee, AI, Args, @[i])]]

blockOf(body, n) == CHOOSE b \in 1..Len(body.blocks) : n \in Range(body.blocks[b].ids)
posOf(ids, n) == CHOOSE i \in 1..Len(ids) : ids[i] = n

insertBefore(ids, pos, new) ==
  SubSeq(ids, 1, pos - 1) \o new \o SubSeq(ids, pos, Len(ids))

\* the clones of the instructions srcIds of callee body cb, then for a
\* try_apply the branch to its normal destination, put before the apply AI
spliceAt(body, AI, Callee, cb, srcIds, b) ==
  [insts |-> [n \in DOMAIN body.insts
                    \cup {cloneId(AI, srcIds[i]) : i \in 1..Len(srcIds)}
                    \cup (IF body.insts[AI].kind = "try_apply"
                          THEN {cloneId(AI, 0)} ELSE {}) |->
                IF n \in DOMAIN body.insts THEN body.insts[n]
                ELSE IF n = cloneId(AI, 0) THEN Br(n, body.insts[AI].succ[1])
                ELSE cloneInst(Callee, AI, Tail(body.insts[AI].ops),
                               cb.insts[n - AI * IdBase])],
   blocks |-> [body.blocks EXCEPT
                 ![b].ids = insertBefore(@, posOf(@, AI),
                              [i \in 1..Len(srcIds) |-> cloneId(AI, srcIds[i])]
                              \o (IF body.insts[AI].kind = "try_apply"
                                  THEN <<cloneId(AI, 0)>> ELSE <<>>))]]

\* SILInliner::inlineFunction on success: the body of the caller with the
\* instructions of Callee cloned before the apply AI (the control flow of the
\* inlined body is flattened into the block of the apply)
inlineFunction(body, AI, Callee) ==
  spliceAt(body, AI, Callee, FnBody(Callee),
           SelectSeq(flatIds(FnBody(Callee), 1),
                     LAMBDA n : ~IsTerminator(FnBody(Callee).insts[n])),
           blockOf(body, AI))

\* isUsed when no use is ever seen
isUsedNever(body, v) == FALSE
isUsed(body, v) ==
  \E n \in DOMAIN body.insts :
     v \in Range(body.insts[n].ops) \cup Range(body.insts[n].cases)

eraseInst(body, n) ==
  [insts |-> [m \in DOMAIN body.insts \ {n} |-> body.insts[m]],
   blocks |-> [body.blocks EXCEPT
                 ![blockOf(body, n)].ids = SelectSeq(@, LAMBDA m : m # n)]]

\* the worklist of recursivelyDeleteTriviallyDeadInstructions: a value that is
\* now unused and free of side effects is erased, then its operands are looked
\* at
RECURSIVE deleteDead(_, _)
deleteDead(body, worklist) ==
  IF worklist = <<>> THEN body
  ELSE IF Head(worklist).k = "inst" /\ Head(worklist).f = Caller
          /\ Head(worklist).n \in DOMAIN body.insts
          /\ body.insts[Head(worklist).n].kind \in PureKinds
          /\ ~isUsed(body, Head(worklist))
  THEN deleteDead(eraseInst(body, Head(worklist).n),
                  Tail(worklist) \o body.insts[Head(worklist).n].ops)
  ELSE deleteDead(body, Tail(worklist))

\* recursivelyDeleteTriviallyDeadInstructions(AI, Force = true): the apply is
\* erased whether or not it is dead, then its operands that became dead
recursivelyDeleteTriviallyDeadInstructions(body, AI) ==
  deleteDead(eraseInst(body, AI), body.insts[AI].ops)

\* ------------------------------------------------------------------------
\* The collector
\* ------------------------------------------------------------------------
\* acc is [cands |-> the list of applies, log |-> the calls of
\* isProfitableInColdBlock made, as <<apply, result>>]
coldDecided(acc, AI, profitable) ==
  [cands |-> IF profitable THEN Append(acc.cands, AI) ELSE acc.cands,
   log |-> Append(acc.log, <<AI, profitable>>)]
\* coldCallee when an always-inline callee is taken before it is found eligible
coldCalleeForced(acc, AI, Callee) ==
  IF getReferencedFunction(AI) # NoFn
     /\ program[getReferencedFunction(AI)].strategy = "AlwaysInline"
  THEN coldDecided(acc, AI, TRUE)
  ELSE IF Callee # NoFn
  THEN coldDecided(acc, AI, isProfitableInColdBlock(AI, Callee))
  ELSE acc
coldCallee(acc, AI, Callee) ==
  IF Callee # NoFn THEN coldDecided(acc, AI, isProfitableInColdBlock(AI, Callee))
  ELSE acc
\* the body of the loop of visitColdBlocks for instruction AI
coldInst(acc, AI) ==
  IF ir.insts[AI].kind # "apply" THEN acc
  ELSE coldCallee(acc, AI, getEligibleFunction(AI))

RECURSIVE coldInsts(_, _, _)
coldInsts(acc, b, i) ==
  IF i > Len(ir.blocks[b].ids) THEN acc
  ELSE coldInsts(coldInst(acc, ir.blocks[b].ids[i]), b, i + 1)

RECURSIVE coldWalk(_, _, _)
coldWalk(acc, buffer, srcIdx) ==
  IF srcIdx = Len(buffer) THEN acc
  ELSE coldWalk(coldInsts(acc, buffer[srcIdx + 1], 1),
                buffer \o ir.blocks[buffer[srcIdx + 1]].children, srcIdx + 1)

visitColdBlocks(acc, Root) == coldWalk(acc, <<Root>>, 0)

\* ColdBlockInfo::isSlowPath(b, child)
isSlowPath(b, child) == child \in ir.blocks[b].slow

\* pushChildrenIf of collectAppliesToInline over the children of b from i on:
\* acc is [cands |-> InitialCandidates, log |-> the cold decisions, buffer |->
\* the buffer of domOrder]
RECURSIVE pushChildrenOrVisitCold(_, _, _)
\* pushChildOrVisitCold when the slow-path edges are not looked at
pushChildAlways(acc, b, child) == [acc EXCEPT !.buffer = Append(@, child)]
visitedCold(acc, cold) == [acc EXCEPT !.cands = cold.cands, !.log = cold.log]
\* pushChildOrVisitCold when a cold child is pushed as well
pushChildAndVisitCold(acc, b, child) ==
  IF isSlowPath(b, child)
  THEN [visitedCold(acc, visitColdBlocks([cands |-> acc.cands, log |-> acc.log], child))
          EXCEPT !.buffer = Append(@, child)]
  ELSE [acc EXCEPT !.buffer = Append(@, child)]
pushChildOrVisitCold(acc, b, child) ==
  IF isSlowPath(b, child)
  THEN visitedCold(acc, visitColdBlocks([cands |-> acc.cands, log |-> acc.log], child))
  ELSE [acc EXCEPT !.buffer = Append(@, child)]
pushChildrenOrVisitCold(acc, b, i) ==
  IF i > Len(ir.blocks[b].children) THEN acc
  ELSE pushChildrenOrVisitCold(
         pushChildOrVisitCold(acc, b, ir.blocks[b].children[i]), b, i + 1)

\* CalleeCount after the counting loop over the candidates cands
countOf(cands, calleeOf) ==
  [Callee \in Range(calleeOf) |->
     Cardinality({i \in 1..Len(cands) : calleeOf[i] = Callee})]
CalleeCount(cands) ==
  countOf(cands, [i \in 1..Len(cands) |-> getReferencedFunction(cands[i])])

\* keepCallee when the comparison is strict
keepCalleeBelow(count, Callee) == count[Callee] < CallsToCalleeThreshold
keepCallee(count, Callee) == count[Callee] <= CallsToCalleeThreshold

\* filterWith when every candidate is copied
filterWithAll(cands, count) == cands
\* the second loop: the candidates whose callee has few enough call sites
filterWith(cands, count) ==
  SelectSeq(cands, LAMBDA AI : keepCallee(count, getReferencedFunction(AI)))
filterCandidates(cands) == filterWith(cands, CalleeCount(cands))

\* ------------------------------------------------------------------------
\* Initial states
\* ------------------------------------------------------------------------
InlineThresholds == {-1, 0, MaxInlineThreshold}
TestThresholds == {-1, MaxTestThreshold}
Phases == {"Everything", "NoGlobalInit", "NoSemanticsAndGlobalInit"}
SpliceFailures == {{}, {"leaf"}}

\* the functions of the module as the pass reads them; the body of a caller
\* under optimization is ir
Program ==
  [f \in DOMAIN Module |->
     IF f \in BigCallers THEN [Module[f] EXCEPT !.body = EmptyBody] ELSE Module[f]]

NoOrder == [buffer |-> <<>>, srcIdx |-> 0]
NoRun == [valid |-> FALSE, ir |-> EmptyBody, InitialCandidates |-> <<>>,
          AppliesToInline |-> <<>>]

\* the state of the pass before run() is entered
PassIdle ==
  /\ program = Program
  /\ ir = Module[Caller].body
  /\ ir0 = ir
  /\ domOrder = NoOrder
  /\ constTracker = CallerTracker(Caller)
  /\ NumCallerBlocks = 0
  /\ InitialCandidates = <<>>
  /\ AppliesToInline = <<>>
  /\ driverIdx = 0
  /\ NumFunctionsInlined = 0
  /\ retval = "none"
  /\ passLog = <<>>
  /\ runs = 0
  /\ spliced = <<>>
  /\ decisions = <<>>
  /\ coldLog = <<>>
  /\ prevRun = NoRun

NoFnIn == [Benefit |-> 0, NumBlocks |-> 0, More |-> 0, isThunk |-> FALSE]
NoFnOut == [applied |-> FALSE, blockMinus |-> 0, Threshold |-> 0, ThresholdMore |-> 0]

\* the pass on one of the small callers, under every configuration
Init ==
  /\ Caller \in SmallCallers
  /\ InlineThreshold \in InlineThresholds
  /\ TestThreshold \in TestThresholds
  /\ WhatToInline \in Phases
  /\ NDEBUG \in BOOLEAN
  /\ spliceFails \in SpliceFailures
  /\ pc = "run"
  /\ PassIdle
  /\ fnIn = NoFnIn
  /\ fnOut = NoFnOut

\* the pass on one of the callers with many call sites of one callee, under
\* the default configuration
InitMany ==
  /\ Caller \in BigCallers
  /\ InlineThreshold = -1
  /\ TestThreshold = -1
  /\ WhatToInline = "Everything"
  /\ NDEBUG = TRUE
  /\ spliceFails = {}
  /\ pc = "run"
  /\ PassIdle
  /\ fnIn = NoFnIn
  /\ fnOut = NoFnOut

\* the inputs of the threshold computation applied alone
ThresholdBenefits ==
  {MaxInlineThreshold, RemovedCallBenefit, RemovedCallBenefit + LoopBenefitFactor,
   RemovedCallBenefit + ConstCalleeBenefit}
ThresholdBlocks ==
  {0, 1, 465, 999, 1000, 1500, SizedCallerBlocks, 2000, 3000, TwoTo16 - 1, TwoTo16,
   2 * TwoTo16, 2^30}
ThresholdSteps == {1, 2, 1000}

InitThreshold ==
  /\ Caller = "main"
  /\ InlineThreshold = -1
  /\ TestThreshold = -1
  /\ WhatToInline = "Everything"
  /\ NDEBUG = TRUE
  /\ spliceFails = {}
  /\ pc = "fn"
  /\ PassIdle
  /\ fnIn \in [Benefit : ThresholdBenefits, NumBlocks : ThresholdBlocks,
                More : ThresholdSteps, isThunk : BOOLEAN]
  /\ fnOut = NoFnOut

\* the walk of isProfitableToInline taken step by step for one apply of the
\* caller trk: fnIn is the apply, fnOut the position of the walk
WalkSites == {20, 21, 22, 23, 24, 25}
WalkTestThresholds == {-1, MaxTestThreshold, 2^30}
\* the tracker of the caller when the collector reaches the apply AI: the
\* instructions of its block up to AI were tracked
RECURSIVE trackedUpTo(_, _, _, _)
trackedUpTo(T, ids, i, AI) ==
  IF i > Len(ids) THEN T
  ELSE IF ids[i] = AI THEN trackInst(T, IV(Caller, ids[i]))
  ELSE trackedUpTo(trackInst(T, IV(Caller, ids[i])), ids, i + 1, AI)
callerTrackerAt(AI) ==
  trackedUpTo(beginBlock(CallerTracker(Caller)), ir.blocks[blockOf(ir, AI)].ids, 1, AI)
\* what getTakenBlock asked the tracker for the terminator of block b
NoQuery ==
  [asked |-> FALSE, b |-> 0, val |-> NoVal, c |-> InvalidConst, deepest |-> 0,
   fresh |-> InvalidConst, bb |-> 0]
walkStart(AI, Callee) ==
  [phase |-> "block", AI |-> AI, Callee |-> Callee,
   W |-> beginWalk(AI, Callee, 0, callerTrackerAt(AI)),
   b |-> 0, i |-> 0, query |-> NoQuery, decision |-> NoDecision]

InitWalk ==
  /\ Caller = "trk"
  /\ InlineThreshold = -1
  /\ TestThreshold \in WalkTestThresholds
  /\ WhatToInline = "Everything"
  /\ NDEBUG = TRUE
  /\ spliceFails = {}
  /\ pc = "walk"
  /\ PassIdle
  /\ fnIn \in [AI : WalkSites]
  /\ fnOut = walkStart(fnIn.AI, getReferencedFunction(fnIn.AI))

\* ------------------------------------------------------------------------
\* The pass run on a function again each time it returned true
\* ------------------------------------------------------------------------
RerunCallers == {"pingCaller", "outerCaller", "neverCaller"}
InitRerun ==
  /\ Caller \in RerunCallers
  /\ InlineThreshold \in {-1, MaxInlineThreshold}
  /\ TestThreshold \in TestThresholds
  /\ WhatToInline \in Phases
  /\ NDEBUG \in BOOLEAN
  /\ spliceFails = {}
  /\ pc = "run"
  /\ PassIdle
  /\ fnIn = NoFnIn
  /\ fnOut = NoFnOut

\* the instructions of body named by their place in the function: the
\* identity of an instruction is its address, which carries no meaning
placeOf(body, n) == posOf(flatIds(body, 1), n)
renamedValue(body, v) ==
  IF v.f = Caller /\ v.k = "inst" /\ v.n \in DOMAIN body.insts
  THEN IV(Caller, placeOf(body, v.n)) ELSE v
renamedInst(body, I) ==
  [I EXCEPT !.id = placeOf(body, I.id),
            !.ops = [i \in 1..Len(@) |-> renamedValue(body, @[i])],
            !.cases = [i \in 1..Len(@) |-> renamedValue(body, @[i])]]
renamed(body) ==
  [insts |-> [k \in 1..Len(flatIds(body, 1)) |->
                renamedInst(body, body.insts[flatIds(body, 1)[k]])],
   blocks |-> [b \in 1..Len(body.blocks) |->
                [body.blocks[b] EXCEPT
                   !.ids = [i \in 1..Len(@) |-> placeOf(body, @[i])]]]]

config == <<program, Caller, InlineThreshold, TestThreshold, WhatToInline, NDEBUG,
            spliceFails, fnIn, fnOut>>
collectorVars == <<domOrder, constTracker, NumCallerBlocks, InitialCandidates,
                   AppliesToInline, decisions, coldLog>>

\* ------------------------------------------------------------------------
\* SILPerformanceInlinerPass::run and inlineCallsIntoFunction
\* ------------------------------------------------------------------------
\* SmallVector<FullApplySite, 8> InitialCandidates, when it was kept from
\* one call of collectAppliesToInline to the next
keptCandidates == InitialCandidates
\* SmallVector<FullApplySite, 8> InitialCandidates: a local, empty
newCandidates == <<>>

\* passDisabled when the threshold is not looked at
passNeverDisabled == FALSE
\* if (getOptions().InlineThreshold == 0) return;
passDisabled == InlineThreshold = 0

\* run() up to the walk of collectAppliesToInline
RunPass ==
  /\ pc = "run"
  /\ runs' = runs + 1
  /\ ir0' = ir
  /\ prevRun' = [valid |-> runs > 0, ir |-> ir0,
                 InitialCandidates |-> InitialCandidates,
                 AppliesToInline |-> AppliesToInline]
  /\ spliced' = <<>>
  /\ passLog' = <<>>
  /\ driverIdx' = 0
  /\ InitialCandidates' = newCandidates
  /\ AppliesToInline' = <<>>
  /\ constTracker' = CallerTracker(Caller)
  /\ decisions' = <<>>
  /\ coldLog' = <<>>
  /\ IF passDisabled
     THEN /\ pc' = "done"
          /\ retval' = "none"
          /\ UNCHANGED <<domOrder, NumCallerBlocks>>
     ELSE IF ~program[Caller].optimize
     THEN /\ pc' = "ret"
          /\ retval' = "false"
          /\ UNCHANGED <<domOrder, NumCallerBlocks>>
     ELSE /\ pc' = "collect"
          /\ retval' = "none"
          /\ domOrder' = [buffer |-> <<1>>, srcIdx |-> 0]
          /\ NumCallerBlocks' = FnSize(Caller)
  /\ UNCHANGED <<config, ir, NumFunctionsInlined>>

\* The loop of collectAppliesToInline over the instructions of block b.  C is
\* the state of the collector: constTracker, NumCallerBlocks,
\* InitialCandidates and the decisions of isProfitableToInline.
collectDecision(C, AI, decision) ==
  [C EXCEPT !.decisions = Append(@, decision),
            !.NumCallerBlocks = decision.NumCallerBlocks,
            !.InitialCandidates = IF decision.profitable THEN Append(@, AI) ELSE @]
collectApply(C, b, AI) ==
  IF getEligibleFunction(AI) # NoFn
  THEN CHOOSE R \in {collectDecision(C, AI, decision) :
                       decision \in {isProfitableToInline(
                                        AI, ir.blocks[b].loopDepth,
                                        C.constTracker, C.NumCallerBlocks)}} : TRUE
  ELSE C
collectTracked(C, b, AI) ==
  IF IsFullApply(ir.insts[AI]) THEN collectApply(C, b, AI) ELSE C
collectInst(C, b, AI) ==
  CHOOSE R \in {collectTracked(T, b, AI) :
                  T \in {[C EXCEPT !.constTracker = trackInst(@, IV(Caller, AI))]}} : TRUE
\* the iterations lo..hi of the loop, in order: the state after the first
\* half is computed before the second half starts from it
RECURSIVE collectInsts(_, _, _, _)
collectInsts(C, b, lo, hi) ==
  IF lo > hi THEN C
  ELSE IF lo = hi THEN collectInst(C, b, ir.blocks[b].ids[lo])
  ELSE CHOOSE R \in {collectInsts(L, b, ((lo + hi) \div 2) + 1, hi) :
                       L \in {collectInsts(C, b, lo, (lo + hi) \div 2)}} : TRUE

\* the block is walked and its children are pushed or visited as cold
collectBlock(b) ==
  \E C0 \in {[constTracker |-> beginBlock(constTracker),
               NumCallerBlocks |-> NumCallerBlocks,
               InitialCandidates |-> InitialCandidates,
               decisions |-> decisions]} :
  \E C \in {collectInsts(C0, b, 1, Len(ir.blocks[b].ids))} :
  \E acc \in {pushChildrenOrVisitCold(
                [cands |-> C.InitialCandidates, log |-> coldLog,
                 buffer |-> domOrder.buffer], b, 1)} :
    /\ constTracker' = C.constTracker
    /\ NumCallerBlocks' = C.NumCallerBlocks
    /\ decisions' = C.decisions
    /\ InitialCandidates' = acc.cands
    /\ coldLog' = acc.log
    /\ domOrder' = [buffer |-> acc.buffer, srcIdx |-> domOrder.srcIdx + 1]

\* one iteration of while (SILBasicBlock *block = domOrder.getNext())
CollectBlock ==
  /\ pc = "collect"
  /\ domOrder.srcIdx < Len(domOrder.buffer)
  /\ collectBlock(domOrder.buffer[domOrder.srcIdx + 1])
  /\ UNCHANGED <<config, ir, ir0, prevRun, spliced, pc, AppliesToInline,
                 driverIdx, NumFunctionsInlined, retval, passLog, runs>>

\* getNext when it returns no block as soon as one block was handed out
domOrderStarted(d) == d.srcIdx >= 1
\* domOrder.getNext() returns no block: the loop over the blocks ends
domOrderExhausted(d) == d.srcIdx = Len(d.buffer)

\* the two loops that end collectAppliesToInline, and the test of
\* inlineCallsIntoFunction on the list returned
CollectFinish ==
  /\ pc = "collect"
  /\ domOrderExhausted(domOrder)
  /\ IF ~NDEBUG /\ \E i \in 1..Len(InitialCandidates) :
                      getReferencedFunction(InitialCandidates[i]) = NoFn
     THEN /\ pc' = "abort"
          /\ UNCHANGED <<AppliesToInline, driverIdx, retval>>
     ELSE /\ AppliesToInline' = filterCandidates(InitialCandidates)
          /\ IF AppliesToInline' = <<>>
             THEN /\ pc' = "ret"
                  /\ retval' = "false"
                  /\ UNCHANGED driverIdx
             ELSE /\ pc' = "drive"
                  /\ driverIdx' = 1
                  /\ UNCHANGED retval
  /\ UNCHANGED <<config, ir, ir0, prevRun, spliced, domOrder, constTracker,
                 NumCallerBlocks, InitialCandidates, decisions, coldLog,
                 NumFunctionsInlined, passLog, runs>>

\* the body of the loop of inlineCallsIntoFunction for the apply AI
inlineCall(AI, Callee) ==
  IF Callee = NoFn
  THEN \* assert(Callee) fails, or the null callee is dereferenced
       /\ pc' = "abort"
       /\ UNCHANGED <<ir, spliced, driverIdx, NumFunctionsInlined>>
  ELSE IF ~program[Callee].optimize
  THEN /\ driverIdx' = driverIdx + 1
       /\ UNCHANGED <<ir, spliced, pc, NumFunctionsInlined>>
  ELSE IF Callee \in spliceFails
  THEN \* inlineFunction returns false
       IF NDEBUG
       THEN /\ ir' = recursivelyDeleteTriviallyDeadInstructions(ir, AI)
            /\ NumFunctionsInlined' = NumFunctionsInlined + 1
            /\ driverIdx' = driverIdx + 1
            /\ UNCHANGED <<spliced, pc>>
       ELSE \* assert(Success) fails
            /\ pc' = "abort"
            /\ UNCHANGED <<ir, spliced, driverIdx, NumFunctionsInlined>>
  ELSE /\ ir' = recursivelyDeleteTriviallyDeadInstructions(
                  inlineFunction(ir, AI, Callee), AI)
       /\ spliced' = Append(spliced, AI)
       /\ NumFunctionsInlined' = NumFunctionsInlined + 1
       /\ driverIdx' = driverIdx + 1
       /\ UNCHANGED pc

\* one iteration of the loop of inlineCallsIntoFunction over AppliesToInline
InlineCall ==
  /\ pc = "drive"
  /\ driverIdx <= Len(AppliesToInline)
  /\ inlineCall(AppliesToInline[driverIdx],
                getReferencedFunction(AppliesToInline[driverIdx]))
  /\ UNCHANGED <<config, ir0, prevRun, collectorVars, retval, passLog, runs>>

\* return true at the end of inlineCallsIntoFunction
DriverReturn ==
  /\ pc = "drive"
  /\ driverIdx > Len(AppliesToInline)
  /\ pc' = "ret"
  /\ retval' = "true"
  /\ UNCHANGED <<config, ir, ir0, prevRun, spliced, collectorVars, driverIdx,
                 NumFunctionsInlined, passLog, runs>>

\* run(): invalidateAnalysis(FunctionBody) after a true result
PassInvalidate ==
  /\ pc = "ret"
  /\ retval = "true"
  /\ passLog' = Append(passLog, "invalidateAnalysis")
  /\ pc' = "invalidated"
  /\ UNCHANGED <<config, ir, ir0, prevRun, spliced, collectorVars, driverIdx,
                 NumFunctionsInlined, retval, runs>>

\* run(): restartPassPipeline(), and run() returns
PassRestart ==
  /\ pc = "invalidated"
  /\ passLog' = Append(passLog, "restartPassPipeline")
  /\ pc' = "done"
  /\ UNCHANGED <<config, ir, ir0, prevRun, spliced, collectorVars, driverIdx,
                 NumFunctionsInlined, retval, runs>>

\* PassReturn when the pipeline is restarted after a false result too
PassReturnRestarting ==
  /\ pc = "ret"
  /\ retval = "false"
  /\ passLog' = Append(passLog, "restartPassPipeline")
  /\ pc' = "done"
  /\ UNCHANGED <<config, ir, ir0, prevRun, spliced, collectorVars, driverIdx,
                 NumFunctionsInlined, retval, runs>>

\* run() returns after a false result
PassReturn ==
  /\ pc = "ret"
  /\ retval = "false"
  /\ pc' = "done"
  /\ UNCHANGED <<config, ir, ir0, prevRun, spliced, collectorVars, driverIdx,
                 NumFunctionsInlined, retval, passLog, runs>>

\* the pass manager runs the pass on the function again: the pipeline was
\* restarted, or the pipeline holds the pass more than once
PassRerun ==
  /\ pc = "done"
  /\ runs < MaxRuns
  /\ pc' = "run"
  /\ UNCHANGED <<config, ir, ir0, prevRun, spliced, collectorVars, driverIdx,
                 NumFunctionsInlined, retval, passLog, runs>>

Next ==
  \/ RunPass
  \/ CollectBlock
  \/ CollectFinish
  \/ InlineCall
  \/ DriverReturn
  \/ PassInvalidate
  \/ PassRestart
  \/ PassReturn
  \/ PassRerun

Spec == Init /\ [][Next]_vars

\* the pass manager runs the pass on the function again after it returned
\* true and restarted the pipeline, however often that happens; runs counts
\* the runs up to MaxRuns, and the statistic NumFunctionsInlined, which no
\* decision reads, counts the splices of one run
PassRerunAfterTrue ==
  /\ pc = "done"
  /\ retval = "true"
  /\ pc' = "run"
  /\ ir' = renamed(ir)
  /\ runs' = IF runs < MaxRuns THEN runs ELSE MaxRuns - 1
  /\ NumFunctionsInlined' = 0
  /\ UNCHANGED <<config, ir0, prevRun, spliced, collectorVars, driverIdx,
                 retval, passLog>>

NextRerun ==
  \/ RunPass
  \/ CollectBlock
  \/ CollectFinish
  \/ InlineCall
  \/ DriverReturn
  \/ PassInvalidate
  \/ PassRestart
  \/ PassReturn
  \/ PassRerunAfterTrue

SpecRerun == InitRerun /\ [][NextRerun]_vars

SpecMany == InitMany /\ [][Next]_vars

\* the Threshold of isProfitableToInline (regular cost model) for Benefit and
\* NumCallerBlocks, and for the same Benefit and a larger NumCallerBlocks
ApplyThreshold ==
  /\ pc = "fn"
  /\ ~fnOut.applied
  /\ fnOut' = [applied |-> TRUE,
               blockMinus |-> IF fnIn.isThunk THEN 0 ELSE blockMinus(fnIn.NumBlocks),
               Threshold |-> computeThreshold(fnIn.Benefit, -1, fnIn.isThunk,
                                              fnIn.NumBlocks),
               ThresholdMore |-> computeThreshold(fnIn.Benefit, -1, fnIn.isThunk,
                                                  fnIn.NumBlocks + fnIn.More)]
  /\ UNCHANGED <<program, Caller, InlineThreshold, TestThreshold, WhatToInline,
                 NDEBUG, spliceFails, fnIn, ir, ir0, pc, prevRun, spliced,
                 collectorVars, driverIdx, NumFunctionsInlined, retval, passLog,
                 runs>>

SpecThreshold == InitThreshold /\ [][ApplyThreshold]_vars

passVars == <<program, Caller, InlineThreshold, TestThreshold, WhatToInline,
              NDEBUG, spliceFails, fnIn, ir, ir0, pc, prevRun, spliced,
              collectorVars, driverIdx, NumFunctionsInlined, retval, passLog,
              runs>>

\* domOrder.getNext() returns a block: constTracker.beginBlock()
WalkBeginBlock ==
  /\ pc = "walk"
  /\ fnOut.phase = "block"
  /\ fnOut.W.srcIdx < Len(fnOut.W.buffer)
  /\ fnOut' = [fnOut EXCEPT !.phase = "inst",
                            !.b = fnOut.W.buffer[fnOut.W.srcIdx + 1],
                            !.i = 1,
                            !.W = [@ EXCEPT !.srcIdx = @ + 1,
                                            !.constTracker = beginBlock(@)]]
  /\ UNCHANGED passVars

\* the body of the loop over the instructions of the block
WalkInst ==
  /\ pc = "walk"
  /\ fnOut.phase = "inst"
  /\ fnOut.i <= Len(FnBody(fnOut.Callee).blocks[fnOut.b].ids)
  /\ fnOut' = [fnOut EXCEPT !.i = @ + 1,
                            !.W = walkInst(@, IV(fnOut.Callee,
                                                 FnBody(fnOut.Callee).blocks[fnOut.b].ids[fnOut.i]),
                                           FnBody(fnOut.Callee).blocks[fnOut.b].loopDepth)]
  /\ UNCHANGED passVars

\* what getTakenBlock asks tracker T for terminator term of block b of f
queryOf(T, f, b, term) ==
  IF term.kind \in {"cond_br", "switch_value"}
  THEN [asked |-> TRUE, b |-> b, val |-> term.ops[1],
        c |-> getIntConst(T, term.ops[1]).c,
        deepest |-> getIntConst(T, term.ops[1]).deepest,
        fresh |-> getIntConst([T EXCEPT !.constCache = EmptyMap], term.ops[1]).c,
        bb |-> getTakenBlock(f, term, T).bb]
  ELSE [NoQuery EXCEPT !.b = b]

\* getTakenBlock for the terminator of the block, and the children pushed
WalkTerminator ==
  /\ pc = "walk"
  /\ fnOut.phase = "inst"
  /\ fnOut.i > Len(FnBody(fnOut.Callee).blocks[fnOut.b].ids)
  /\ fnOut' = [fnOut EXCEPT !.phase = "block",
                            !.query = queryOf(fnOut.W.constTracker, fnOut.Callee, fnOut.b,
                                              Terminator(FnBody(fnOut.Callee), fnOut.b)),
                            !.W = walkTerminator(@, fnOut.Callee, fnOut.b)]
  /\ UNCHANGED passVars

\* domOrder.getNext() returns no block: the Threshold and the decision
WalkDecide ==
  /\ pc = "walk"
  /\ fnOut.phase = "block"
  /\ fnOut.W.srcIdx = Len(fnOut.W.buffer)
  /\ fnOut' = [fnOut EXCEPT !.phase = "end",
                            !.decision =
                               decideWalk([NoDecision EXCEPT !.AI = fnOut.AI,
                                                             !.Callee = fnOut.Callee,
                                                             !.NumBlocks = FnSize(Caller),
                                                             !.NumCallerBlocks = FnSize(Caller)],
                                          fnOut.W)]
  /\ UNCHANGED passVars

NextWalk == WalkBeginBlock \/ WalkInst \/ WalkTerminator \/ WalkDecide

SpecWalk == InitWalk /\ [][NextWalk]_vars

\* ------------------------------------------------------------------------
\* Properties
\* ------------------------------------------------------------------------
\* the positions of the pass after collectAppliesToInline returned
AfterCollection == {"drive", "ret", "invalidated", "done"}

\* the callee the apply AI referred to when the current run began
calleeAtStart(AI) == getReferencedFunctionIn(ir0, ir0.insts[AI])
\* the full apply sites of the caller when the current run began
SitesAtStart == {AI \in DOMAIN ir0.insts : IsFullApply(ir0.insts[AI])}
eligibleAtStart(AI) ==
  AI \in SitesAtStart /\ getEligibleFunctionIn(Caller, ir0, ir0.insts[AI]) # NoFn
alwaysInlineAtStart(AI) ==
  calleeAtStart(AI) # NoFn /\ program[calleeAtStart(AI)].strategy = "AlwaysInline"

\* the blocks of body below block b in the dominator tree, b included
RECURSIVE subtree(_, _)
subtree(body, b) ==
  {b} \cup UNION {subtree(body, body.blocks[b].children[i]) :
                    i \in 1..Len(body.blocks[b].children)}
\* the blocks of body in a subtree entered over a slow-path edge
ColdBlocksOf(body) ==
  UNION {subtree(body, c) : c \in UNION {body.blocks[b].slow : b \in 1..Len(body.blocks)}}
ColdSitesAtStart ==
  {AI \in SitesAtStart : blockOf(ir0, AI) \in ColdBlocksOf(ir0)}

\* the inline cost of the instructions ids[i..] of body
RECURSIVE sumCost(_, _, _)
sumCost(body, ids, i) ==
  IF i > Len(ids) THEN 0 ELSE body.insts[ids[i]].cost + sumCost(body, ids, i + 1)
\* the inline cost of all instructions of all blocks of f
totalCost(f) == sumCost(FnBody(f), flatIds(FnBody(f), 1), 1)

\* C1: a call site for which getEligibleFunction returns no callee is never in
\* the candidate lists of collectAppliesToInline and is never spliced, under
\* every InlineThreshold and TestThreshold, in a normally walked block or in a
\* cold subtree, always-inline callee or not
IneligibleNeverInlined ==
  \A AI \in Range(InitialCandidates) \cup Range(AppliesToInline) \cup Range(spliced) :
     eligibleAtStart(AI)

\* a run on main spliced callees and left in place an ineligible site of an
\* always-inline callee in a cold subtree and an ineligible site in a normally
\* walked block
IneligibleSitesLeftWitness ==
  /\ pc = "done"
  /\ spliced # <<>>
  /\ InlineThreshold > 0
  /\ \E AI \in ColdSitesAtStart :
        ~eligibleAtStart(AI) /\ alwaysInlineAtStart(AI) /\ AI \in DOMAIN ir.insts
  /\ \E AI \in SitesAtStart \ ColdSitesAtStart :
        ~eligibleAtStart(AI) /\ AI \in DOMAIN ir.insts

\* the initial candidates whose callee is Callee
candidatesOf(Callee) ==
  {AI \in Range(InitialCandidates) : calleeAtStart(AI) = Callee}
\* the full apply sites whose callee is Callee
sitesOf(Callee) == {AI \in SitesAtStart : calleeAtStart(AI) = Callee}

ThresholdNonIncreasing ==
  fnOut.applied =>
    /\ fnOut.ThresholdMore <= fnOut.Threshold
    /\ fnOut.Threshold >= TrivialFunctionThreshold
    /\ fnOut.ThresholdMore >= TrivialFunctionThreshold

\* the Threshold went up when NumCallerBlocks went from 65535 to 65536
ThresholdWrapsWitness ==
  /\ fnOut.applied
  /\ fnIn.NumBlocks = TwoTo16 - 1
  /\ fnIn.More = 1
  /\ fnOut.ThresholdMore > fnOut.Threshold

\* C4: every negative outcome for a call site (ineligible callee, cost above
\* threshold, callee over the ceiling, splice failure) leaves the site in the
\* caller as it was and does not increment NumFunctionsInlined.  Stated for
\* the first run of the pass, where the counter started at 0.
RejectedSiteUntouched ==
  runs = 1 =>
    /\ NumFunctionsInlined = Len(spliced)
    /\ \A AI \in SitesAtStart \ Range(spliced) :
          AI \in DOMAIN ir.insts /\ ir.insts[AI] = ir0.insts[AI]

\* the splice service failed for a candidate: its apply is gone from the
\* caller and the counter went up
SpliceFailureWitness ==
  /\ runs = 1
  /\ spliced = <<>>
  /\ NumFunctionsInlined > 0
  /\ \E AI \in SitesAtStart : AI \notin DOMAIN ir.insts

\* C5: inlineCallsIntoFunction returns true if and only if at least one callee
\* was spliced into the caller during the call
TrueIffSpliced ==
  /\ retval = "true" => spliced # <<>>
  /\ retval = "false" => spliced = <<>>

\* inlineCallsIntoFunction returned true and nothing was spliced
TrueWithoutSpliceWitness ==
  pc = "ret" /\ retval = "true" /\ spliced = <<>>

\* C6: run() invalidates the analyses and restarts the pipeline exactly when
\* inlineCallsIntoFunction returned true, the invalidation first; when it
\* returned false, or was not called, neither happens and the body of the
\* function is unchanged
InvalidateThenRestartIffTrue ==
  /\ retval # "true" => passLog = <<>>
  /\ retval = "false" => ir = ir0
  /\ pc = "done" /\ retval = "none" => ir = ir0
  /\ pc = "ret" => passLog = <<>>
  /\ pc = "invalidated" => retval = "true" /\ passLog = <<"invalidateAnalysis">>
  /\ pc = "done" /\ retval = "true" =>
       passLog = <<"invalidateAnalysis", "restartPassPipeline">>

\* run() returned after a true result, with the body changed and both calls
\* made
RestartedWitness ==
  /\ pc = "done"
  /\ retval = "true"
  /\ ir # ir0
  /\ passLog = <<"invalidateAnalysis", "restartPassPipeline">>

AlwaysInlineProfitable ==
  /\ \A i \in 1..Len(decisions) :
        program[decisions[i].Callee].strategy = "AlwaysInline" => decisions[i].profitable
  /\ \A i \in 1..Len(coldLog) : alwaysInlineAtStart(coldLog[i][1]) => coldLog[i][2]

\* in test mode, an always-inline callee of cost above every threshold was
\* found profitable in a loop and in a cold block
AlwaysInlineWitness ==
  /\ TestThreshold >= 0
  /\ \E i \in 1..Len(decisions) :
        /\ program[decisions[i].Callee].strategy = "AlwaysInline"
        /\ decisions[i].loopDepth > 0
        /\ decisions[i].profitable
        /\ totalCost(decisions[i].Callee) > RemovedCallBenefit
  /\ \E i \in 1..Len(coldLog) : alwaysInlineAtStart(coldLog[i][1]) /\ coldLog[i][2]

\* C9: a call site in a subtree entered over a slow-path edge whose callee is
\* not always-inline is a candidate only if test mode is off and the cost of
\* all instructions of all blocks of the callee is at most
\* TrivialFunctionThreshold
ColdCandidateIsTrivial ==
  /\ \A AI \in Range(InitialCandidates) \cap ColdSitesAtStart :
        \E i \in 1..Len(coldLog) : coldLog[i] = <<AI, TRUE>>
  /\ \A i \in 1..Len(coldLog) :
        coldLog[i][2] /\ ~alwaysInlineAtStart(coldLog[i][1]) =>
          /\ TestThreshold < 0
          /\ totalCost(calleeAtStart(coldLog[i][1])) <= TrivialFunctionThreshold

\* a cold site of a callee of cost above 20 was rejected, and a site of the
\* same callee in a normally walked block is a candidate
ColdRejectedWitness ==
  /\ pc \in AfterCollection
  /\ TestThreshold < 0
  /\ \E i \in 1..Len(coldLog) :
        /\ ~coldLog[i][2]
        /\ totalCost(calleeAtStart(coldLog[i][1])) > TrivialFunctionThreshold
        /\ \E AI \in Range(InitialCandidates) \ ColdSitesAtStart :
              calleeAtStart(AI) = calleeAtStart(coldLog[i][1])

\* the successor of the cond_br term that is not t
notTaken(term, t) == IF term.succ[1] = t THEN term.succ[2] ELSE term.succ[1]
\* the operand the apply AI of the caller passes for the condition of the
\* cond_br term of Callee, NoVal when the condition is no argument of Callee
conditionOperand(AI, Callee, term) ==
  IF term.kind = "cond_br" /\ term.ops[1].k = "arg" /\ term.ops[1].f = Callee
     /\ term.ops[1].n < Len(ir0.insts[AI].ops)
  THEN ir0.insts[AI].ops[term.ops[1].n + 1]
  ELSE NoVal
\* the operand is an integer literal of the caller
isCallerLiteral(v) ==
  v.k = "inst" /\ v.f = Caller /\ v.n \in DOMAIN ir0.insts
  /\ ir0.insts[v.n].kind = "integer_literal"
\* the inline cost of the instructions of the blocks visited[i..] of body
RECURSIVE visitedCost(_, _, _)
visitedCost(body, visited, i) ==
  IF i > Len(visited) THEN 0
  ELSE sumCost(body, body.blocks[visited[i]].ids, 1) + visitedCost(body, visited, i + 1)
\* the Benefit isProfitableToInline starts from for decision D
startBenefit(D) ==
  (IF InlineThreshold > 0 THEN InlineThreshold ELSE RemovedCallBenefit)
  + D.loopDepth * LoopBenefitFactor
\* the cond_br terminators decision D resolved, as <<block, taken, not taken>>
resolvedBranches(D) ==
  {<<r[1], r[2], notTaken(Terminator(FnBody(D.Callee), r[1]), r[2])>> :
     r \in {x \in Range(D.resolved) :
              Terminator(FnBody(D.Callee), x[1]).kind = "cond_br"}}
\* every cond_br walked for decision D whose condition is an argument bound
\* to an integer literal of the caller was resolved, to the successor the
\* literal selects
literalBranchesResolved(D) ==
  \A b \in Range(D.visited) :
     LET term == Terminator(FnBody(D.Callee), b)
         v == conditionOperand(D.AI, D.Callee, term)
     IN v # NoVal /\ isCallerLiteral(v) =>
          <<b, IF ir0.insts[v.n].val % (2^IntBits) # 0 THEN term.succ[1]
               ELSE term.succ[2]>> \in Range(D.resolved)
\* no instruction of function f is an apply
noApplyIn(f) ==
  \A n \in DOMAIN FnBody(f).insts : FnBody(f).insts[n].kind # "apply"
\* the walks of callees the current run made
walkedDecisions == {D \in Range(decisions) : D.walked}

\* C10 (amended): when the condition of a conditional branch of the callee is
\* a constant known from the arguments of the caller, the branch is resolved,
\* Benefit increases by ConstTerminatorBenefit for it, and the not-taken
\* successor is not walked, so that its instructions are not added to
\* CalleeCost, when the branching block is its only predecessor
ConstBranchPrunesSoleSuccessor ==
  \A D \in walkedDecisions :
    /\ literalBranchesResolved(D)
    /\ \A r \in resolvedBranches(D) :
          r[3] # r[2] /\ getSinglePredecessor(FnBody(D.Callee), r[3]) = r[1]
            => r[3] \notin Range(D.visited)
    /\ TestThreshold < 0 =>
          D.CalleeCost = visitedCost(FnBody(D.Callee), D.visited, 1)
    /\ noApplyIn(D.Callee) =>
          D.Benefit = startBenefit(D) + ConstTerminatorBenefit * Len(D.resolved)

\* a branch on a literal argument was resolved and its not-taken successor,
\* of cost above what the threshold leaves, was left out of the cost of a
\* profitable callee
BranchPrunedWitness ==
  \E D \in walkedDecisions :
    /\ D.profitable
    /\ TestThreshold < 0
    /\ D.Benefit = startBenefit(D) + ConstTerminatorBenefit
    /\ \E r \in resolvedBranches(D) :
          /\ r[3] \notin Range(D.visited)
          /\ sumCost(FnBody(D.Callee), FnBody(D.Callee).blocks[r[3]].ids, 1)
               > D.Threshold - D.CalleeCost

\* C10 as stated: the not-taken successor of a resolved conditional branch is
\* never walked, and Benefit increases by ConstTerminatorBenefit
ConstBranchPrunesSuccessor ==
  \A D \in walkedDecisions :
    /\ literalBranchesResolved(D)
    /\ \A r \in resolvedBranches(D) :
          r[3] # r[2] => r[3] \notin Range(D.visited)
    /\ noApplyIn(D.Callee) =>
          D.Benefit = startBenefit(D) + ConstTerminatorBenefit * Len(D.resolved)

\* the instructions of the blocks of the callee walked for decision D
visitedInsts(D) ==
  UNION {Range(FnBody(D.Callee).blocks[b].ids) : b \in Range(D.visited)}
\* the builtin instructions among them
builtinsVisited(D) ==
  {n \in visitedInsts(D) : FnBody(D.Callee).insts[n].kind = "builtin"}
\* the operand v of an instruction of the callee of D is an argument for
\* which the apply of the caller passes a function_ref or a partial_apply
passedFunction(D, v) ==
  /\ v.k = "arg" /\ v.f = D.Callee /\ v.n < Len(ir0.insts[D.AI].ops)
  /\ ir0.insts[D.AI].ops[v.n + 1].k = "inst"
  /\ ir0.insts[D.AI].ops[v.n + 1].f = Caller
  /\ ir0.insts[ir0.insts[D.AI].ops[v.n + 1].n].kind
       \in {"function_ref", "partial_apply"}
\* the apply instructions walked whose callee is such an argument
constCalleesVisited(D) ==
  {n \in visitedInsts(D) :
     /\ FnBody(D.Callee).insts[n].kind = "apply"
     /\ passedFunction(D, FnBody(D.Callee).insts[n].ops[1])}

candidateCount ==
  [Callee \in {calleeAtStart(AI) : AI \in Range(InitialCandidates)} |->
     Cardinality(candidatesOf(Callee))]
\* the initial candidates, in order, whose callee has at most
\* CallsToCalleeThreshold of them
belowCeiling(count) ==
  SelectSeq(InitialCandidates,
            LAMBDA AI : count[calleeAtStart(AI)] <= CallsToCalleeThreshold)

\* C12: the list collectAppliesToInline returns is the sub-sequence, in
\* discovery order, of the initial candidates whose callee has at most 1024
\* initial candidates; candidates of cold subtrees and of always-inline
\* callees are counted and filtered like the others
FinalListIsFilteredCandidates ==
  pc \in AfterCollection =>
    \A count \in {candidateCount} : AppliesToInline = belowCeiling(count)

\* 1024 sites of an always-inline callee in a normally walked block and one
\* in a cold subtree are all initial candidates, and none is returned
ColdAndAlwaysCountedWitness ==
  /\ pc = "ret"
  /\ Len(InitialCandidates) = CallsToCalleeThreshold + 1
  /\ InitialCandidates[Len(InitialCandidates)] \in ColdSitesAtStart
  /\ \A i \in 1..Len(InitialCandidates) : alwaysInlineAtStart(InitialCandidates[i])
  /\ AppliesToInline = <<>>

\* the sites getEligibleFunction returned a callee for in the current run:
\* those handed to isProfitableToInline or to isProfitableInColdBlock
eligibleSeen ==
  {decisions[i].AI : i \in 1..Len(decisions)} \cup {coldLog[i][1] : i \in 1..Len(coldLog)}

\* C13: in the middle phase no site whose callee is a global initializer or
\* carries a semantics attribute starting with "availability" is eligible,
\* whatever other semantics or effects attributes the callee carries
MiddlePhaseSkipsGlobalInit ==
  WhatToInline = "NoGlobalInit" =>
    \A AI \in eligibleSeen :
       /\ ~program[calleeAtStart(AI)].globalInit
       /\ ~hasSemanticsAttrThatStartsWith(program[calleeAtStart(AI)], "availability")

\* in the middle phase a global initializer that also has an effects
\* attribute was found eligible, and spliced
GlobalInitWithEffectsWitness ==
  /\ WhatToInline = "NoGlobalInit"
  /\ \E AI \in eligibleSeen \cap Range(spliced) :
        program[calleeAtStart(AI)].globalInit /\ program[calleeAtStart(AI)].effects

\* the body of function f holds an apply or try_apply of a function_ref of f
callsItself(f) ==
  \E n \in DOMAIN program[f].body.insts :
     /\ program[f].body.insts[n].kind \in {"apply", "try_apply"}
     /\ program[f].body.insts[n].ops[1].k = "inst"
     /\ program[f].body.insts[program[f].body.insts[n].ops[1].n].kind = "function_ref"
     /\ program[f].body.insts[program[f].body.insts[n].ops[1].n].fref = f

\* C14: no site whose callee is the caller and no site whose callee directly
\* calls itself is eligible, in any phase and under any thresholds
SelfRecursionNeverEligible ==
  \A AI \in eligibleSeen :
     calleeAtStart(AI) # Caller /\ ~callsItself(calleeAtStart(AI))

\* a run spliced callees into tester and left its call of itself and its
\* calls of the two self-recursive callees in place
SelfCallsLeftWitness ==
  /\ pc = "done"
  /\ spliced # <<>>
  /\ \E AI \in SitesAtStart \ eligibleSeen :
        calleeAtStart(AI) = Caller /\ AI \in DOMAIN ir.insts
  /\ \E AI \in SitesAtStart \ eligibleSeen :
        /\ calleeAtStart(AI) \notin {Caller, NoFn}
        /\ callsItself(calleeAtStart(AI))
        /\ program[calleeAtStart(AI)].body.insts[2].kind = "try_apply"
        /\ AI \in DOMAIN ir.insts

\* C15: with the inline threshold 0, run() collects nothing, leaves the body
\* of the function unchanged, does not increment NumFunctionsInlined and
\* neither invalidates the analyses nor restarts the pipeline
ZeroThresholdDisablesPass ==
  InlineThreshold = 0 =>
    /\ pc \in {"run", "done"}
    /\ ir = Module[Caller].body
    /\ NumFunctionsInlined = 0
    /\ passLog = <<>>
    /\ retval = "none"
    /\ domOrder = NoOrder
    /\ decisions = <<>> /\ coldLog = <<>>
    /\ InitialCandidates = <<>> /\ AppliesToInline = <<>>

\* the pass ran twice with threshold 0 on a function that has sites which are
\* inlined under the other thresholds
ZeroThresholdWitness ==
  /\ InlineThreshold = 0
  /\ pc = "done"
  /\ runs > 1
  /\ \E AI \in SitesAtStart : eligibleAtStart(AI)

\* Observable behaviour, at the level the splice service is described: the
\* sequence of instructions with effects a block executes, a direct call of a
\* function with a body standing for the instructions of that body.  ExpandDepth
\* nested calls are followed; calls of the function itself, of functions that
\* call themselves and of unknown or external functions are events.
ExpandDepth == 3
event(k, f, c, s) == [k |-> k, f |-> f, c |-> c, s |-> s]
\* the function a callee operand refers to in context ctx (the body executed
\* and the functions passed as its arguments), "?" when unknown
resolveFn(ctx, v) ==
  IF v.k = "arg" THEN (IF v.n <= Len(ctx.args) THEN ctx.args[v.n] ELSE "?")
  ELSE IF v.k = "inst" /\ v.n \in DOMAIN ctx.body.insts
          /\ ctx.body.insts[v.n].kind = "function_ref"
  THEN ctx.body.insts[v.n].fref
  ELSE "?"
expandable(f) ==
  /\ f \in DOMAIN program /\ f # Caller
  /\ Len(program[f].body.blocks) > 0
  /\ ~program[f].external
  /\ ~callsItself(f)
RECURSIVE eventsOf(_, _, _, _, _)
calleeContext(ctx, I, f) ==
  [body |-> program[f].body,
   args |-> [i \in 1..(Len(I.ops) - 1) |-> resolveFn(ctx, I.ops[i + 1])]]
callEvents(ctx, I, f, fuel, top) ==
  IF expandable(f) /\ fuel > 0
  THEN eventsOf(calleeContext(ctx, I, f), flatIds(program[f].body, 1), 1, fuel - 1, FALSE)
       \o (IF I.kind = "try_apply" /\ top THEN <<event("br", "", 0, <<I.succ[1]>>)>>
           ELSE <<>>)
  ELSE <<event(I.kind, f, 0, I.succ)>>
eventsOfInst(ctx, I, fuel, top) ==
  IF I.kind \in {"apply", "try_apply"}
  THEN callEvents(ctx, I, resolveFn(ctx, I.ops[1]), fuel, top)
  ELSE IF IsTerminator(I) THEN (IF top THEN <<event(I.kind, "", 0, I.succ)>> ELSE <<>>)
  ELSE IF I.kind \in PureKinds \cup {"alloc_stack"} THEN <<>>
  ELSE <<event(I.kind, I.bop, I.cost, <<>>)>>
eventsOf(ctx, ids, i, fuel, top) ==
  IF i > Len(ids) THEN <<>>
  ELSE eventsOfInst(ctx, ctx.body.insts[ids[i]], fuel, top)
       \o eventsOf(ctx, ids, i + 1, fuel, top)
\* the behaviour of block b of body as a body of the function the pass runs on
behaviour(body, b) ==
  eventsOf([body |-> body, args |-> <<>>], body.blocks[b].ids, 1, ExpandDepth, TRUE)

\* C16: however often the pass runs, the function has the observable behaviour
\* it had before the pass: every block executes the same instructions with
\* effects, in the same order
BehaviourPreserved ==
  /\ Len(ir.blocks) = Len(Module[Caller].body.blocks)
  /\ \A b \in 1..Len(ir.blocks) : behaviour(ir, b) = behaviour(Module[Caller].body, b)

\* the pass finished after a failed splice: the call of leaf is gone from the
\* function and the instructions of leaf are not there either
CallLostWitness ==
  /\ pc = "done"
  /\ spliced = <<>>
  /\ NumFunctionsInlined > 0
  /\ \E b \in 1..Len(ir.blocks) :
        Len(behaviour(ir, b)) < Len(behaviour(Module[Caller].body, b))

\* NumCallerBlocks before the i-th call of isProfitableToInline of the current
\* collection is the size of the caller when the collection began for the
\* first call and what the call before left for the others; the variable
\* holds what the last call left
callerSizeAtStart == Len(ir0.blocks) + program[Caller].extraBlocks
counterThreaded ==
  /\ \A i \in 1..Len(decisions) :
        decisions[i].NumBlocks = IF i = 1 THEN callerSizeAtStart
                                 ELSE decisions[i - 1].NumCallerBlocks
  /\ NumCallerBlocks = IF decisions = <<>> THEN callerSizeAtStart
                        ELSE decisions[Len(decisions)].NumCallerBlocks
isAlwaysInline(D) == program[D.Callee].strategy = "AlwaysInline"

\* C17 (as amended): NumCallerBlocks starts at the block count of the caller;
\* a call of isProfitableToInline that returns true for a callee that is not
\* always-inline adds exactly the block count of the callee, a call that
\* returns true for an always-inline callee and a call that returns false
\* leave it unchanged; it never decreases
CounterGrowsByAcceptedCallee ==
  (pc = "collect" \/ decisions # <<>>) =>
    /\ counterThreaded
    /\ \A D \in Range(decisions) :
          /\ D.NumCallerBlocks >= D.NumBlocks
          /\ D.NumCallerBlocks =
               IF D.profitable /\ ~isAlwaysInline(D)
               THEN D.NumBlocks + FnSize(D.Callee) ELSE D.NumBlocks

\* a collection with an accepted callee that was walked, a rejected one and an
\* accepted always-inline one
CounterGrowthWitness ==
  /\ pc \in AfterCollection
  /\ \E D \in Range(decisions) : D.walked /\ D.profitable /\ FnSize(D.Callee) > 1
  /\ \E D \in Range(decisions) : D.walked /\ ~D.profitable
  /\ \E D \in Range(decisions) : isAlwaysInline(D) /\ D.profitable
  /\ NumCallerBlocks > callerSizeAtStart

\* C17 as stated: every call of isProfitableToInline that returns true adds
\* exactly the block count of the callee to NumCallerBlocks
CounterGrowsByEveryAccepted ==
  (pc = "collect" \/ decisions # <<>>) =>
    /\ counterThreaded
    /\ \A D \in Range(decisions) :
          D.NumCallerBlocks =
            IF D.profitable THEN D.NumBlocks + FnSize(D.Callee) ELSE D.NumBlocks

\* the taken block the walk of decision D determined for the terminator of
\* block b of the callee, 0 when it determined none
takenBlockOf(D, b) ==
  IF \E r \in Range(D.resolved) : r[1] = b
  THEN (CHOOSE r \in Range(D.resolved) : r[1] = b)[2]
  ELSE 0
\* the dominator-tree children of the blocks the walk of D visited, as
\* <<block, child>>
childrenOfVisited(D) ==
  UNION {{<<b, FnBody(D.Callee).blocks[b].children[i]>> :
            i \in 1..Len(FnBody(D.Callee).blocks[b].children)} : b \in Range(D.visited)}
\* the child is dead after inlining: the taken block of its parent is known,
\* the parent is its single predecessor and it is not the taken block
deadChild(D, bc) ==
  /\ takenBlockOf(D, bc[1]) # 0
  /\ getSinglePredecessor(FnBody(D.Callee), bc[2]) = bc[1]
  /\ bc[2] # takenBlockOf(D, bc[1])

\* C18 (as amended): the walk of isProfitableToInline starts at the entry
\* block and visits dominator-tree children of visited blocks only; a child is
\* left out exactly when the taken successor of the block just finished is
\* statically determined, that block is the single predecessor of the child
\* and the child is not the taken successor
WalkSkipsDeadChildrenOnly ==
  \A D \in walkedDecisions :
    /\ D.visited # <<>> /\ D.visited[1] = 1
    /\ \A i \in 2..Len(D.visited) :
          \E bc \in childrenOfVisited(D) : bc[2] = D.visited[i]
    /\ \A bc \in childrenOfVisited(D) :
          bc[2] \in Range(D.visited) <=> ~deadChild(D, bc)

\* a walk that left out a child dead after inlining and visited a child with
\* several predecessors that is not the taken successor
DeadChildSkippedWitness ==
  \E D \in walkedDecisions :
    /\ \E bc \in childrenOfVisited(D) : deadChild(D, bc) /\ bc[2] \notin Range(D.visited)
    /\ \E bc \in childrenOfVisited(D) :
          /\ takenBlockOf(D, bc[1]) # 0
          /\ getSinglePredecessor(FnBody(D.Callee), bc[2]) # bc[1]
          /\ bc[2] # takenBlockOf(D, bc[1])
          /\ bc[2] \in Range(D.visited)

\* C18 as stated: a dominator-tree child is visited only if its sole
\* predecessor is the block just finished or it is the statically determined
\* taken successor
WalkVisitsSolePredecessorOrTaken ==
  \A D \in walkedDecisions :
    \A bc \in childrenOfVisited(D) :
       bc[2] \in Range(D.visited) =>
          \/ getSinglePredecessor(FnBody(D.Callee), bc[2]) = bc[1]
          \/ bc[2] = takenBlockOf(D, bc[1])

\* Natural numbers as sequences of digits to the base BlockLimitDenominator,
\* lowest digit first, for the values the integers of the model checker do
\* not hold
digitsOf(n) ==
  <<n % BlockLimitDenominator, (n \div BlockLimitDenominator) % BlockLimitDenominator,
    n \div (BlockLimitDenominator * BlockLimitDenominator)>>
digitAt(x, i) == IF i \in 1..Len(x) THEN x[i] ELSE 0
\* the sum of x[i] * y[k + 1 - i] from i on
RECURSIVE productColumn(_, _, _, _)
productColumn(x, y, k, i) ==
  IF i > Len(x) THEN 0
  ELSE digitAt(x, i) * digitAt(y, k + 1 - i) + productColumn(x, y, k, i + 1)
RECURSIVE carried(_, _, _)
carried(columns, i, carry) ==
  IF i > Len(columns)
  THEN (IF carry = 0 THEN <<>>
        ELSE <<carry % BlockLimitDenominator>>
             \o carried(columns, i, carry \div BlockLimitDenominator))
  ELSE <<(columns[i] + carry) % BlockLimitDenominator>>
       \o carried(columns, i + 1, (columns[i] + carry) \div BlockLimitDenominator)
timesDigits(x, y) ==
  carried([k \in 1..(Len(x) + Len(y) - 1) |-> productColumn(x, y, k, 1)], 1, 0)
sameNumber(x, y) ==
  \A i \in 1..(Len(x) + Len(y)) : digitAt(x, i) = digitAt(y, i)
\* floor(n^3 / BlockLimitDenominator^2): n^3 without its two lowest digits
cubeOverDenominatorSquared(n) ==
  LET cube == timesDigits(timesDigits(digitsOf(n), digitsOf(n)), digitsOf(n))
  IN [i \in 1..(IF Len(cube) > 2 THEN Len(cube) - 2 ELSE 0) |-> cube[i + 2]]
maxOf(a, b) == IF a >= b THEN a ELSE b

\* C19: in the default case (no test mode, caller not a thunk) the amount
\* subtracted from Benefit is floor(NumCallerBlocks^3 / 10000^2) for every
\* value of NumCallerBlocks, and Threshold is max(Benefit - amount, 20)
CubicDecayExact ==
  fnOut.applied /\ ~fnIn.isThunk =>
    /\ sameNumber(digitsOf(fnOut.blockMinus), cubeOverDenominatorSquared(fnIn.NumBlocks))
    /\ fnOut.Threshold = maxOf(fnIn.Benefit - fnOut.blockMinus, TrivialFunctionThreshold)

\* below the wrap-around of the counter the amount differs from the cubic
\* term: for 465 blocks nothing is subtracted and the cubic term is 1
CubicDecayTruncatedWitness ==
  /\ fnOut.applied /\ ~fnIn.isThunk
  /\ fnIn.NumBlocks = 465
  /\ fnOut.blockMinus = 0
  /\ sameNumber(cubeOverDenominatorSquared(fnIn.NumBlocks), <<1>>)

\* the amount is the cubic term where neither the rounding nor the width of
\* the counter shows: for 1500 blocks 33 is subtracted
CubicDecayAgreesWitness ==
  /\ fnOut.applied /\ ~fnIn.isThunk
  /\ fnIn.NumBlocks = 1500
  /\ fnOut.blockMinus = 33
  /\ sameNumber(cubeOverDenominatorSquared(fnIn.NumBlocks), <<33>>)

\* the collection of the current run has finished: every eligible site
\* outside the cold blocks was handed to isProfitableToInline and the list
\* returned is the filtered list of candidates
collectionFinished ==
  /\ \A AI \in SitesAtStart \ ColdSitesAtStart :
        eligibleAtStart(AI) => \E i \in 1..Len(decisions) : decisions[i].AI = AI
  /\ \A count \in {candidateCount} : AppliesToInline = belowCeiling(count)

\* C20: collectAppliesToInline and what it calls change no function body:
\* while it runs the caller is as it was when the run began and no body of the
\* program changes; a step that changes the body of the caller is a step of
\* the loop of inlineCallsIntoFunction, taken after the collection finished,
\* and leaves the collected lists as they are
CollectionChangesNoBody ==
  /\ [](pc = "collect" => ir = ir0)
  /\ [][program' = program]_vars
  /\ [][pc = "collect" => ir' = ir]_vars
  /\ [][ir' # ir => /\ pc = "drive"
                    /\ collectionFinished
                    /\ InitialCandidates' = InitialCandidates
                    /\ AppliesToInline' = AppliesToInline
                    /\ decisions' = decisions]_vars

\* the driver changed the caller after a collection that visited several
\* blocks and accepted and rejected sites
BodyChangedAfterCollectionWitness ==
  /\ pc = "drive"
  /\ ir # ir0
  /\ spliced # <<>>
  /\ Len(domOrder.buffer) > 1
  /\ collectionFinished
  /\ \E D \in Range(decisions) : ~D.profitable

\* the instructions of the caller in a cold subtree when the run began
ColdInstsAtStart ==
  UNION {Range(ir0.blocks[b].ids) : b \in ColdBlocksOf(ir0)}
\* the blocks of the callees isProfitableToInline accepted after a walk, from
\* decision i on
RECURSIVE acceptedBlocks(_)
acceptedBlocks(i) ==
  IF i > Len(decisions) THEN 0
  ELSE (IF decisions[i].walked /\ decisions[i].profitable
        THEN FnSize(decisions[i].Callee) ELSE 0) + acceptedBlocks(i + 1)
\* the instructions the tracker of the caller holds in its tables
trackedInsts(T) ==
  {v.n : v \in DOMAIN T.links} \cup {T.links[v].n : v \in DOMAIN T.links}
  \cup {T.memoryContent[a].n : a \in DOMAIN T.memoryContent}

\* C21: a candidate accepted in a cold subtree does not change
\* NumCallerBlocks, no block of a cold subtree is visited by the normal
\* dominance-order walk, no call site of a cold subtree is handed to
\* isProfitableToInline and no instruction of a cold subtree is fed to the
\* ConstantTracker of the caller
ColdCodeLeavesAccountingAlone ==
  (pc = "collect" \/ decisions # <<>> \/ coldLog # <<>>) =>
    /\ NumCallerBlocks = callerSizeAtStart + acceptedBlocks(1)
    /\ Range(domOrder.buffer) \cap ColdBlocksOf(ir0) = {}
    /\ \A i \in 1..Len(decisions) : decisions[i].AI \notin ColdInstsAtStart
    /\ \A i \in 1..Len(coldLog) : coldLog[i][1] \in ColdInstsAtStart
    /\ trackedInsts(constTracker) \cap ColdInstsAtStart = {}

\* a collection accepted a callee of two blocks in a cold subtree that stores
\* and loads, and the tracker of the caller holds links of the other blocks
ColdCandidateAcceptedWitness ==
  /\ pc \in AfterCollection
  /\ \E i \in 1..Len(coldLog) :
        /\ coldLog[i][2]
        /\ coldLog[i][1] \in Range(InitialCandidates)
        /\ FnSize(calleeAtStart(coldLog[i][1])) > 1
  /\ \E n \in ColdInstsAtStart : ir0.insts[n].kind = "load"
  /\ DOMAIN constTracker.links # {}
  /\ NumCallerBlocks > callerSizeAtStart

\* the walk taken step by step ends as the walk of isProfitableToInline
StepwiseWalkAgrees ==
  pc = "walk" /\ fnOut.phase = "end" =>
    fnOut.decision = isProfitableToInline(fnOut.AI, 0, callerTrackerAt(fnOut.AI),
                                          FnSize(Caller))

\* the walk taken step by step: the tracker of the callee and the body walked
walkTracker == fnOut.W.constTracker
walkBody == FnBody(fnOut.Callee)
\* the integer literals the estimated constant of v is folded from: the
\* definition of v when it is a literal, the literals under the operands of
\* the definition when it is a builtin, followed over at most fuel builtins
RECURSIVE literalsUnder(_, _, _)
literalsOfDef(T, d, fuel) ==
  IF KindOf(d) = "integer_literal" THEN {d}
  ELSE IF KindOf(d) = "builtin" /\ fuel > 0
  THEN UNION {literalsUnder(T, InstOf(d).ops[i], fuel - 1) : i \in 1..Len(InstOf(d).ops)}
  ELSE {}
literalsUnder(T, v, fuel) == literalsOfDef(T, getDef(T, v), fuel)
onlyCalleeLiterals(T, v) ==
  \A l \in literalsUnder(T, v, DeepChain + 1) : l.f = T.F
\* the builtins of the body walked that fold two operands or one
foldedBuiltins ==
  {n \in DOMAIN walkBody.insts :
     /\ walkBody.insts[n].kind = "builtin"
     /\ walkBody.insts[n].bop \in PredicateOps \cup OverflowOps \cup DivOps
                                   \cup BitOps \cup CastOps}
operandFromCaller(T, I) ==
  \E i \in 1..Len(I.ops) : getIntConst(T, I.ops[i]).c.isFromCaller
\* the step of the walk is the step for a terminator
terminatorStep == fnOut.phase = "inst" /\ fnOut'.phase = "block"
allChildren(b) == walkBody.blocks[b].children

\* C22: getTakenBlock resolves a cond_br or a switch_value only when the
\* estimated constant of its condition is valid and from the caller; a
\* condition folded from literals of the callee alone yields no taken block,
\* no terminator bonus and no pruned successor; the result of a builtin is
\* from the caller exactly when it is valid and an operand is from the caller
TakenBlockNeedsCallerConstant ==
  /\ [](pc = "walk" /\ fnOut.query.asked =>
          /\ fnOut.query.bb # 0 => fnOut.query.c.isValid /\ fnOut.query.c.isFromCaller
          /\ fnOut.query.c.isFromCaller => fnOut.query.c.isValid)
  /\ [](pc = "walk" /\ fnOut.phase # "end" =>
          \A n \in foldedBuiltins :
             \A r \in {getIntConst(walkTracker, IV(fnOut.Callee, n)).c} :
                r.isFromCaller <=>
                  (r.isValid /\ operandFromCaller(walkTracker, walkBody.insts[n])))
  /\ [][terminatorStep =>
          /\ fnOut'.W.Benefit =
               fnOut.W.Benefit + (IF fnOut'.query.bb # 0 THEN ConstTerminatorBenefit ELSE 0)
          /\ fnOut'.query.bb = 0 =>
               fnOut'.W.buffer = fnOut.W.buffer \o allChildren(fnOut.b)
          /\ (fnOut'.query.asked /\ onlyCalleeLiterals(walkTracker, fnOut'.query.val)) =>
               fnOut'.query.bb = 0]_vars

\* the walk of constbr for a literal argument resolved the branches on the
\* argument; the switch_value of bb6 on a comparison of literals of constbr
\* has a valid constant that is not from the caller and no taken block
CalleeConstantNotTakenWitness ==
  /\ pc = "walk"
  /\ fnOut.Callee = "constbr"
  /\ fnOut.query.asked /\ fnOut.query.b = 6
  /\ fnOut.query.c.isValid /\ ~fnOut.query.c.isFromCaller
  /\ fnOut.query.bb = 0
  /\ Len(fnOut.W.resolved) = 2
  /\ 7 \notin Range(fnOut.W.buffer)

\* the walk stands at the first instruction of a block: beginBlock has run
blockBegun == pc = "walk" /\ fnOut.phase = "inst" /\ fnOut.i = 1
\* the link of load is to an instruction of the same block placed before it
linkWithinBlock(body, load, target) ==
  /\ target.n \in DOMAIN body.insts
  /\ blockOf(body, target.n) = blockOf(body, load.n)
  /\ \A ids \in {body.blocks[blockOf(body, load.n)].ids} :
        posOf(ids, target.n) < posOf(ids, load.n)
\* the link is to the content an address has in the tracker of the caller
linkIntoCaller(T, target) ==
  T.hasCaller /\ target.f # T.F /\ target \in Range2(T.callerTracker.memoryContent)

\* C23 (as stated): at the start of every block the link table and the
\* content table of the tracker are both empty
TablesEmptyAtBlockStart ==
  blockBegun => /\ walkTracker.memoryContent = EmptyMap
                /\ walkTracker.links = EmptyMap

\* C23 (amended): beginBlock empties the content table only; the links are
\* kept from block to block and are never rewritten, and every link joins a
\* load or copy to a store or copy tracked before it in the same block, or
\* to the content of an address of the caller
ContentEmptyLinksKeptAtBlockStart ==
  /\ [](blockBegun => walkTracker.memoryContent = EmptyMap)
  /\ [](pc = "walk" =>
          \A k \in DOMAIN walkTracker.links :
             \/ linkWithinBlock(walkBody, k, walkTracker.links[k])
             \/ linkIntoCaller(walkTracker, walkTracker.links[k]))
  /\ [][pc = "walk" =>
          \A k \in DOMAIN walkTracker.links :
             /\ k \in DOMAIN fnOut'.W.constTracker.links
             /\ fnOut'.W.constTracker.links[k] = walkTracker.links[k]]_vars

\* memblk: bb2 has begun with the links of bb1 in the table and no content
LinkOutlivesBlockWitness ==
  /\ blockBegun
  /\ fnOut.Callee = "memblk" /\ fnOut.b = 2
  /\ walkTracker.memoryContent = EmptyMap
  /\ IV("memblk", 9) \in DOMAIN walkTracker.links
  /\ walkTracker.links[IV("memblk", 9)] = IV("memblk", 8)

\* the instruction the walk tracks in its next step
instAtWalk == IV(fnOut.Callee, walkBody.blocks[fnOut.b].ids[fnOut.i])
instStep == pc = "walk" /\ fnOut.phase = "inst" /\ fnOut'.phase = "inst"
\* the instruction writes memory: the address written is its second operand
writesMemory(I) == I.kind \in {"store", "copy_addr"}
\* the writes to base address A between positions from and to of a block
writesBetween(T, ids, A, from, to) ==
  {j \in (from + 1)..(to - 1) :
     /\ writesMemory(FnBody(T.F).insts[ids[j]])
     /\ baseAddr(T, FnBody(T.F).insts[ids[j]].ops[2]) = A}

\* C24: after trackInst of a store or copy_addr that writes base address A
\* the content recorded for A is that instruction, and a load is never
\* linked to a store of its block that a later write to the same address has
\* overwritten before the load
WriteRecordedAsContent ==
  /\ [][instStep /\ writesMemory(InstOf(instAtWalk)) =>
          Get(fnOut'.W.constTracker.memoryContent,
              baseAddr(walkTracker, InstOf(instAtWalk).ops[2])) = instAtWalk]_vars
  /\ [](pc = "walk" =>
          \A k \in DOMAIN walkTracker.links :
             (KindOf(k) = "load" /\ walkTracker.links[k].f = fnOut.Callee) =>
                \A ids \in {walkBody.blocks[blockOf(walkBody, k.n)].ids} :
                   writesBetween(walkTracker, ids, baseAddr(walkTracker, InstOf(k).ops[1]),
                                 posOf(ids, walkTracker.links[k].n), posOf(ids, k.n)) = {})

\* memblk: load 12 is linked to copy_addr 8 although copy_addr 11 wrote the
\* location in between, and the cond_br of bb1 is resolved from that link
StaleLinkResolvesBranchWitness ==
  /\ pc = "walk" /\ fnOut.Callee = "memblk"
  /\ fnOut.query.asked /\ fnOut.query.b = 1 /\ fnOut.query.bb # 0
  /\ Get(walkTracker.links, IV("memblk", 12)) = IV("memblk", 8)

\* following the links from v ends within fuel steps at a value without link
RECURSIVE chainEnds(_, _, _)
chainEnds(T, v, fuel) ==
  IF v \in DOMAIN T.links
  THEN fuel > 0 /\ chainEnds(T, T.links[v], fuel - 1)
  ELSE IF T.hasCaller /\ v \in DOMAIN T.callerTracker.links
  THEN fuel > 0 /\ chainEnds(T, T.callerTracker.links[v], fuel - 1)
  ELSE TRUE
linkCount(T) ==
  Cardinality(DOMAIN T.links)
    + (IF T.hasCaller THEN Cardinality(DOMAIN T.callerTracker.links) ELSE 0)
\* the values of the body walked that a query can be asked for
queriedValues ==
  {IV(fnOut.Callee, n) : n \in DOMAIN walkBody.insts}
    \cup {AV(fnOut.Callee, 1), AV(fnOut.Callee, 2)}

\* C25: every getIntConst query ends with its nesting within the depth
\* limit; a call at the depth limit returns the invalid constant without
\* evaluating an operand and without touching the cache; the links followed
\* by getDef form no cycle
QueryNestingBounded ==
  pc = "walk" =>
    /\ fnOut.query.asked => fnOut.query.deepest <= DepthLimit
    /\ fnOut.phase # "end" =>
         \A v \in queriedValues :
            /\ getIntConst(walkTracker, v).deepest <= DepthLimit
            /\ \A r \in {getIntConstCache(walkTracker, walkTracker.constCache, v, DepthLimit)} :
                  /\ r.c = InvalidConst
                  /\ r.cache = walkTracker.constCache
                  /\ r.deepest = DepthLimit
    /\ \A k \in DOMAIN walkTracker.links :
          /\ walkTracker.links[k] # k
          /\ chainEnds(walkTracker, k, linkCount(walkTracker))

\* deep: the query for the last builtin of the chain reached the depth limit
\* and came back invalid, where the chain folds to a constant of the caller
DepthLimitReachedWitness ==
  /\ pc = "walk" /\ fnOut.Callee = "deep"
  /\ fnOut.query.asked /\ fnOut.query.b = 1
  /\ fnOut.query.deepest = DepthLimit
  /\ ~fnOut.query.c.isValid

\* the apply is in the caller and its callee operand is a function_ref there
resolvesDirectly(AI) ==
  AI \in DOMAIN ir.insts /\ getReferencedFunction(AI) # NoFn
\* the candidates the driver has not reached yet
pendingCandidates ==
  {AppliesToInline[i] : i \in driverIdx..Len(AppliesToInline)}

\* C26: every call site of the initial list resolves to a direct callee when
\* the collector counts it, and every call site of the final list does when
\* the driver reaches it, whatever was spliced and erased before it
CandidatesKeepDirectCallee ==
  /\ pc = "collect" =>
       \A i \in 1..Len(InitialCandidates) : resolvesDirectly(InitialCandidates[i])
  /\ pc = "drive" =>
       \A AI \in pendingCandidates :
          /\ resolvesDirectly(AI)
          /\ getReferencedFunction(AI) = calleeAtStart(AI)

\* a candidate was spliced and erased, and a candidate still to come calls
\* through the function_ref the spliced one called through
SharedFunctionRefSurvivesWitness ==
  /\ pc = "drive"
  /\ \E AI \in pendingCandidates :
        \E i \in 1..Len(spliced) :
           /\ spliced[i] \notin DOMAIN ir.insts
           /\ ir0.insts[spliced[i]].ops[1] = ir0.insts[AI].ops[1]
           /\ resolvesDirectly(AI)

\* C27: the constant cache is transparent: whatever was queried before, the
\* constant getIntConst returns at depth 0 is the constant it returns on the
\* same tracker with an empty constCache
ConstCacheTransparent ==
  /\ pc = "walk" /\ fnOut.query.asked => fnOut.query.c = fnOut.query.fresh
  /\ pc = "walk" /\ fnOut.phase # "end" =>
       \A v \in queriedValues :
          getIntConst(walkTracker, v).c
            = getIntConst([walkTracker EXCEPT !.constCache = EmptyMap], v).c

\* deep: the cond_br of bb2 asks for the second builtin of the chain after
\* the query of bb1 was cut at the depth limit; the cache answers invalid
\* where the builtin folds to a constant of the caller
CachedInvalidAnswersWitness ==
  /\ pc = "walk" /\ fnOut.Callee = "deep"
  /\ fnOut.query.asked /\ fnOut.query.b = 2
  /\ ~fnOut.query.c.isValid
  /\ fnOut.query.fresh.isValid /\ fnOut.query.fresh.isFromCaller
  /\ fnOut.query.bb = 0

\* no element of seq is at two positions
injective(seq) == \A i, j \in 1..Len(seq) : seq[i] = seq[j] => i = j
decidedSites == [i \in 1..Len(decisions) |-> decisions[i].AI]
coldSites == [i \in 1..Len(coldLog) |-> coldLog[i][1]]
\* the blocks below the entry block in the dominator tree when the run began
blocksAtStart == subtree(ir0, 1)

\* C28: in one collection every block below the entry block is visited once,
\* by the dominance-order walk or by one cold walk: no block is pushed twice,
\* the cold subtrees and the blocks walked are disjoint and together all
\* blocks when the walk has ended, no call site is decided twice or decided
\* both ways, no call is twice in the initial or the final list, and the
\* driver splices no site twice
EveryBlockVisitedOnce ==
  domOrder.buffer # <<>> =>
    /\ injective(domOrder.buffer)
    /\ Range(domOrder.buffer) \cap ColdBlocksOf(ir0) = {}
    /\ Range(domOrder.buffer) \cup ColdBlocksOf(ir0) \subseteq blocksAtStart
    /\ injective(decidedSites) /\ injective(coldSites)
    /\ Range(decidedSites) \cap Range(coldSites) = {}
    /\ injective(InitialCandidates) /\ injective(AppliesToInline)
    /\ injective(spliced)
    /\ pc \in AfterCollection =>
         /\ Range(domOrder.buffer) \cup ColdBlocksOf(ir0) = blocksAtStart
         /\ collectionFinished
         /\ \A AI \in ColdSitesAtStart :
               (ir0.insts[AI].kind = "apply" /\ eligibleAtStart(AI)) =>
                  AI \in Range(coldSites)

\* the driver spliced a site of a cold subtree and a site of a block walked
ColdAndWalkedSplicedWitness ==
  /\ pc = "ret"
  /\ \E i, j \in 1..Len(spliced) :
        /\ spliced[i] \in Range(coldSites)
        /\ spliced[j] \in Range(decidedSites)
  /\ Len(domOrder.buffer) > 1

\* C29: when the pass is run on a function again each time it returned
\* true, a run returns false in the end.  The pass is a function of the caller
\* and the configuration, so a caller that recurs recurs for ever: no run that
\* returns true leaves the caller as the run before it found it, up to the
\* identities of the instructions
RerunNeverRepeatsCaller ==
  (pc = "ret" /\ retval = "true" /\ prevRun.valid) => renamed(ir) # prevRun.ir

\* the pass spliced a call of ping or pong into pingCaller in a run after
\* the first and returned true again
MutualRecursionSplicedAgainWitness ==
  /\ Caller = "pingCaller"
  /\ runs > 1
  /\ pc = "ret" /\ retval = "true"
  /\ spliced # <<>>
  /\ renamed(ir) = Module["pingCaller"].body
  /\ prevRun.valid /\ prevRun.ir = Module["pingCaller"].body

\* the walk is in test mode: the pass was given a test threshold
testMode == TestThreshold >= 0
costInMode(I) == IF testMode THEN testCost(I) ELSE instructionInlineCost(I)

\* C30: within one walk of isProfitableToInline every instruction is costed
\* by the test cost model exactly when TestThreshold >= 0 and by the regular
\* one otherwise, and the Threshold is selected the same way, however often
\* the 32 bit testThreshold was doubled with wrap-around
CostModelFixedForWalk ==
  /\ [](pc = "walk" => ((fnOut.W.testThreshold >= 0) <=> testMode))
  /\ [][instStep =>
          fnOut'.W.CalleeCost = fnOut.W.CalleeCost + costInMode(InstOf(instAtWalk))]_vars
  /\ [](pc = "walk" /\ fnOut.phase = "end" =>
          fnOut.decision.Threshold =
            (IF testMode THEN fnOut.decision.testThreshold
             ELSE computeThreshold(fnOut.decision.Benefit, -1, program[Caller].thunk,
                                   fnOut.decision.NumBlocks)))

\* applyfirst walked under the test threshold 2^30: the apply of its argument
\* doubled testThreshold to a negative value, the instruction after it was
\* costed by the regular model and the Threshold is the Benefit
TestThresholdWrappedWitness ==
  /\ pc = "walk" /\ fnOut.phase = "end"
  /\ fnOut.Callee = "applyfirst"
  /\ testMode
  /\ fnOut.decision.testThreshold < 0
  /\ fnOut.decision.CalleeCost > 1
  /\ fnOut.decision.Threshold = fnOut.decision.Benefit

====
